---- MODULE Spec2Model ----
(***************************************************************************)
(* Tensor / session handle registries and the inference coordinator of     *)
(* flutter_onnxruntime, as implemented three times in the repository:      *)
(*   "linux"   src/linux/src/{tensor_manager,session_manager,              *)
(*             flutter_onnxruntime_plugin}.cc                              *)
(*   "windows" src/windows/src/{tensor_manager,session_manager}.cc and     *)
(*             src/windows/flutter_onnxruntime_plugin.cpp                  *)
(*   "legacy"  src/linux/flutter_onnxruntime_plugin.cc with                *)
(*             src/linux/ort_value.cc (global maps g_ort_values,           *)
(*             g_sessions)                                                 *)
(* The variable impl fixes the implementation a behaviour runs.            *)
(*                                                                         *)
(* Tensor identifiers "tensor_<n>" are modelled by the number n; the       *)
(* 16-hex-digit identifiers of the windows generator by a number of        *)
(* RandomIds.  float32 elements are modelled by integers.                  *)
(***************************************************************************)
EXTENDS Integers, Sequences, FiniteSets, TLC

\* ------------------------------------------------------------------ bounds
\* Largest value of the linux and legacy tensor counters.
MaxTensorId == 3
\* Number of distinct identifiers the windows generator draws from.
MaxRandomId == 2
\* Longest payload a caller supplies to createOrtValue.
MaxLen == 2
\* Largest session identifier handed out.
MaxSessionId == 1
\* Largest handle a caller passes as an inference input.
MaxInputHandle == 1
\* Caller threads that run inference at the same time.
MaxThreads == 2
\* Element conversions are evaluated on the float32 values k/4 with
\* |k| <= MaxQuarter and on the named boundary values.
MaxQuarter == 16

NULL == "null"

Impls == {"linux", "windows", "legacy"}

\* The identifiers the windows generateTensorId can return.
RandomIds == 1..MaxRandomId
\* Handles a caller may pass; 0 is never issued by linux or windows.
HandleArgs == 0..MaxTensorId
\* Caller threads of the concurrent specification.
Threads == 1..MaxThreads

\* ------------------------------------------------------------- data domain
CreatableTypes == {"float32", "int32", "int64", "uint8", "bool"}

\* The i-th element of the sample payload of element type t, as held in
\* memory (a bool is the byte 0 or 1).
Sample(t, i) ==
  CASE t = "float32" -> 10 + i
    [] t = "int32"   -> 20 + i
    [] t = "int64"   -> 30 + i
    [] t = "uint8"   -> 250 + i
    [] t = "bool"    -> i % 2
    [] OTHER         -> 40 + i

\* The sample payload of n elements of type t.
Data(t, n) == [i \in 1..n |-> Sample(t, i)]

\* ------------------------------------------------------- float32 arithmetic
\* A float32 value is m * 2^e with an integer m of at most 24 bits (the
\* significand with its sign) and an integer e.  The operators below are
\* the IEEE 754 single-precision operations the conversion loops use,
\* computed exactly on that representation.
RECURSIVE Pow2(_)
Pow2(n) == IF n <= 0 THEN 1 ELSE 2 * Pow2(n - 1)

Abs(n) == IF n < 0 THEN -n ELSE n
Sgn(n) == IF n < 0 THEN -1 ELSE 1

\* The number of bits of n >= 0.
RECURSIVE BitLen(_)
BitLen(n) == IF n = 0 THEN 0 ELSE 1 + BitLen(n \div 2)

F(m, e) == [m |-> m, e |-> e]

\* The float32 nearest to M * 2^e, ties to the even significand (the
\* rounding of every float32 operation in the default rounding mode).
Float32Round(M, e) ==
  IF BitLen(Abs(M)) <= 24 THEN F(M, e)
  ELSE LET k == BitLen(Abs(M)) - 24
           q == Abs(M) \div Pow2(k)
           r == Abs(M) % Pow2(k)
           up == r > Pow2(k - 1) \/ (r = Pow2(k - 1) /\ q % 2 = 1)
       IN F(Sgn(M) * (IF up THEN q + 1 ELSE q), e + k)

\* x + y in float32.
Float32Add(x, y) ==
  LET e0 == IF x.e < y.e THEN x.e ELSE y.e
  IN Float32Round(x.m * Pow2(x.e - e0) + y.m * Pow2(y.e - e0), e0)

\* static_cast<integer>(x): the fraction is discarded (toward zero).
Float32Trunc(x) ==
  IF x.e >= 0 THEN x.m * Pow2(x.e)
  ELSE Sgn(x.m) * (Abs(x.m) \div Pow2(-x.e))

\* x > n for an integer n >= 0.
Float32Above(x, n) ==
  \/ Float32Trunc(x) > n
  \/ Float32Trunc(x) = n /\ x.e < 0 /\ x.m > 0 /\ Abs(x.m) % Pow2(-x.e) # 0

Half == F(1, -1)
MinusHalf == F(-1, -1)

\* windows convertFloat32To, one element to int32 or int64:
\* static_cast<T>(data[i] + (data[i] >= 0 ? 0.5f : -0.5f)).
Float32ToIntWindows(x) ==
  Float32Trunc(Float32Add(x, IF x.m >= 0 THEN Half ELSE MinusHalf))

\* legacy ort_convert_tensor, one element to int32: static_cast<int32_t>(x).
Float32ToIntLegacy(x) == Float32Trunc(x)

\* windows convertFloat32To, one element to uint8:
\* data[i] < 0 ? 0 : (data[i] > 255 ? 255 : data[i] + 0.5f), then the cast.
Float32ToUint8Windows(x) ==
  IF x.m < 0 THEN 0
  ELSE IF Float32Above(x, 255) THEN 255
  ELSE Float32Trunc(Float32Add(x, Half))

\* --------------------------------------------------------- float16 utilities
\* A float32 bit pattern: sign bit s, exponent field e, mantissa field m.
B(s, e, m) == [s |-> s, e |-> e, m |-> m]

FLOAT16_EXPONENT_BIAS == 15
FLOAT32_EXPONENT_BIAS == 127
FLOAT16_SIGN_MASK == 32768
FLOAT16_EXPONENT_MASK == 31744
FLOAT16_MANTISSA_MASK == 1023

\* Float16Utils::floatToFloat16 on the bit pattern b; the result is the
\* uint16_t it returns.
floatToFloat16(b) ==
  LET sign == b.s
      exponent == b.e - FLOAT32_EXPONENT_BIAS + FLOAT16_EXPONENT_BIAS
      mantissa == b.m
  IN IF exponent <= 0 THEN sign * Pow2(15)
     ELSE IF exponent >= 31
     THEN (IF mantissa = 0 THEN sign * Pow2(15) + FLOAT16_EXPONENT_MASK
           ELSE sign * Pow2(15) + FLOAT16_EXPONENT_MASK + 512)
     ELSE sign * Pow2(15) + exponent * Pow2(10) + mantissa \div Pow2(13)

\* The while loop of float16ToFloat: shift m left, counting in e, until bit
\* 10 is set.
RECURSIVE Renormalize(_, _)
Renormalize(m, e) ==
  IF (m \div Pow2(10)) % 2 = 1 THEN <<m, e>> ELSE Renormalize(2 * m, e + 1)

\* Float16Utils::float16ToFloat on the uint16_t value; the result is the
\* bit pattern of the float it returns.
float16ToFloat(value) ==
  LET sign == value \div FLOAT16_SIGN_MASK
      exponent == (value % FLOAT16_SIGN_MASK) \div Pow2(10)
      mantissa == value % (FLOAT16_MANTISSA_MASK + 1)
  IN IF exponent = 0
     THEN IF mantissa = 0 THEN B(sign, 0, 0)
          ELSE LET n == Renormalize(mantissa, 1)
                   normalizedExponent == exponent - n[2] + 1
               IN B(sign,
                    normalizedExponent + FLOAT32_EXPONENT_BIAS - FLOAT16_EXPONENT_BIAS,
                    (n[1] % Pow2(10)) * Pow2(13))
     ELSE IF exponent = 31
     THEN (IF mantissa = 0 THEN B(sign, 255, 0) ELSE B(sign, 255, Pow2(22)))
     ELSE B(sign, exponent + FLOAT32_EXPONENT_BIAS - FLOAT16_EXPONENT_BIAS,
            mantissa * Pow2(13))

\* The bit pattern of the float32 whose value is the integer n, |n| < 2^24.
Float32Bits(n) ==
  IF n = 0 THEN B(0, 0, 0)
  ELSE B(IF n < 0 THEN 1 ELSE 0, FLOAT32_EXPONENT_BIAS + BitLen(Abs(n)) - 1,
         Abs(n) * Pow2(24 - BitLen(Abs(n))) - Pow2(23))

\* The value of the float32 bit pattern b, a zero or a normal number, as
\* significand and exponent.
Float32Value(b) ==
  IF b.e = 0 THEN F(0, 0)
  ELSE F((IF b.s = 1 THEN -1 ELSE 1) * (Pow2(23) + b.m), b.e - 150)


\* Shapes a caller supplies: a scalar, a one-element vector and the longest
\* vector.
Shapes == {<<>>, <<1>>, <<MaxLen>>}

\* Payload lengths a caller supplies.
Lens == {1, MaxLen}

RECURSIVE Product(_)
\* std::accumulate / the total_elements loops: product of the dimensions,
\* 1 for the empty shape.
Product(shape) ==
  IF shape = <<>> THEN 1 ELSE Head(shape) * Product(Tail(shape))

\* The createOrtValue requests a caller issues: one element of every type
\* in a one-element vector, and float32 payloads that match their shape
\* (<<1>> or scalar with one element), are shorter than it (<<MaxLen>> with
\* one element) or longer (<<1>> with MaxLen elements).
CreateRequests ==
  {[sourceType |-> t, shape |-> <<1>>, data |-> Data(t, 1)] :
     t \in CreatableTypes}
  \cup
  {[sourceType |-> "float32", shape |-> p[1], data |-> Data("float32", p[2])] :
     p \in {q \in Shapes \X Lens : q[2] = 1 \/ q[1] = <<1>>}}

\* The requests of callers that create tensors to convert them: one element
\* of every type in a one-element vector.
TypedRequests ==
  {[sourceType |-> t, shape |-> <<1>>, data |-> Data(t, 1)] :
     t \in CreatableTypes}

\* The target types a caller passes to convertOrtValue.
TargetTypes == CreatableTypes \cup {"float16", "string"}

\* The request of callers that create tensors to feed them to a session.
InputRequests ==
  {[sourceType |-> "float32", shape |-> <<1>>, data |-> Data("float32", 1)]}

NoRequest == [sourceType |-> "", shape |-> <<>>, data |-> <<>>]

\* ------------------------------------------------------------------- state
VARIABLES
  impl,                 \* "linux" | "windows" | "legacy"
  tensors_,             \* tensor id -> Ort::Value  (legacy: g_ort_values)
  tensor_types_,        \* tensor id -> type string
  tensor_shapes_,       \* tensor id -> shape
  tensor_data_buffers_, \* windows only: tensor id -> backing buffer
  next_tensor_id_,      \* linux: next_tensor_id_; legacy: static counter
  sessions_,            \* session id -> model (legacy: g_sessions)
  next_session_id_,     \* next_session_id_; legacy: static counter
  resp,                 \* the response of the last handler that ran
  minted,               \* history: tensor ids handed out so far
  released,             \* history: ids a release has removed
  pc,                   \* caller thread -> where its run_inference stands
  loc,                  \* caller thread -> the locals of its run_inference
  held,                 \* caller thread -> the mutexes it has locked
  prog,                 \* caller thread -> what its handler has yet to do
  calc                  \* the element conversion under evaluation

vars == <<impl, tensors_, tensor_types_, tensor_shapes_, tensor_data_buffers_,
          next_tensor_id_, sessions_, next_session_id_, resp, minted, released,
          pc, loc, held, prog, calc>>

sessionVars == <<sessions_, next_session_id_>>
histVars == <<minted, released>>
lockVars == <<held, prog, calc>>
threadVars == <<pc, loc, held, prog, calc>>

\* No element conversion is under evaluation.  src, x: the type and value of
\* the element to convert; dst, y: the target type and the result; via, x0:
\* the type and value the element x was itself converted from, if any.
NoCalc == [src |-> "", x |-> 0, dst |-> "", y |-> 0, done |-> TRUE,
           via |-> "", x0 |-> 0]

\* The locals of a run_inference call: the tensors handed to the engine, the
\* values it returned, the index of the output loop, the identifier drawn
\* for the current output and the entries of outputs_map so far.
NoLocals == [fed |-> <<>>, outs |-> <<>>, i |-> 0, id |-> -1, entries |-> <<>>,
             what |-> "", found |-> FALSE, live |-> FALSE, ret |-> FALSE,
             rivals |-> 0]

\* ----------------------------------------------------------- map helpers
\* std::map operator[] assignment, erase, and the empty map.
Put(m, k, v) == [x \in DOMAIN m \cup {k} |-> IF x = k THEN v ELSE m[x]]
Erase(m, k) == [x \in DOMAIN m \ {k} |-> m[x]]
EmptyMap == [x \in {} |-> NULL]

\* An Ort::Value holding a tensor over the memory elems.  The tensor claims
\* Product(shape) elements.  storage tells who keeps that memory alive:
\*   "own"    the value itself or an allocation that is never freed,
\*   "buffer" the entry of tensor_data_buffers_ under the tensor's id,
\*   "freed"  nobody: the memory has been deallocated.
Tensor(t, shape, elems, storage) ==
  [kind |-> "tensor", etype |-> t, shape |-> shape, elems |-> elems,
   storage |-> storage]

\* A moved-from Ort::Value (its OrtValue pointer is null).
EmptyValue ==
  [kind |-> "empty", etype |-> NULL, shape |-> <<>>, elems |-> <<>>,
   storage |-> "own"]

\* An Ort::Value that is not a tensor (a sequence or map output).
NonTensor ==
  [kind |-> "nontensor", etype |-> NULL, shape |-> <<>>, elems |-> <<>>,
   storage |-> "own"]

\* ---------------------------------------------------------- ONNX Runtime
\* Ort::Value::CreateTensor over caller memory of dataLen elements: the
\* runtime rejects a buffer smaller than the shape needs and accepts a larger
\* one, viewing only the first Product(shape) elements.
OrtCreateTensorOk(dataLen, shape) == Product(shape) <= dataLen

\* TensorTypeAndShapeInfo::GetElementCount of a tensor value.
ElementCount(v) == Product(v.shape)

\* What a load from memory that is not (or no longer) part of the tensor's
\* allocation can yield (for float16, the patterns of the float32 samples).
AnyElem(t) ==
  IF t = "float16"
  THEN {floatToFloat16(Float32Bits(Sample("float32", i))) : i \in 1..2}
  ELSE {Sample(t, 1), Sample(t, 2)}

\* The element sequences a read of the whole tensor can yield: the storage
\* where it is allocated, anything for elements outside it.
ReadOutcomes(v) ==
  {r \in [1..ElementCount(v) -> AnyElem(v.etype) \cup
                                 {v.elems[i] : i \in 1..Len(v.elems)}] :
     \A i \in 1..ElementCount(v) :
        (v.storage # "freed" /\ i <= Len(v.elems)) => r[i] = v.elems[i]}

\* --------------------------------------------------------------- responses
\* How an element travels in a response.  linux getTensorData sends a bool
\* as the int 1 or 0; windows sends a bool; float32 is widened to a double.
WireKind(t) ==
  CASE t = "float32" -> "double"
    [] t = "bool"    -> IF impl = "linux" THEN "int" ELSE "bool"
    [] OTHER         -> "int"

Encode(t, elems) == [i \in 1..Len(elems) |-> [w |-> WireKind(t), v |-> elems[i]]]

\* The numeric values of an encoded payload.
Values(wire) == [i \in 1..Len(wire) |-> wire[i].v]

\* status: "success", "error", or "none" when the handler returns without
\* answering the call.
NoResp ==
  [op |-> "init", status |-> "none", code |-> "", valueId |-> -1,
   dataType |-> "", shape |-> <<>>, data |-> <<>>, outputs |-> <<>>,
   engine |-> "none", fed |-> <<>>, got |-> <<>>, minted |-> {},
   req |-> NoRequest, message |-> "", unresolved |-> 0,
   source |-> -1, target |-> "", named |-> {}, session |-> -1, model |-> "",
   names |-> <<>>]

Success(op) == [NoResp EXCEPT !.op = op, !.status = "success"]
Failure(op, code) == [NoResp EXCEPT !.op = op, !.status = "error", !.code = code]
Unanswered(op, code) == [NoResp EXCEPT !.op = op, !.code = code]

\* --------------------------------------------------------- Handle Generator
\* Whether generateTensorId can return n more identifiers within the bound.
\* linux: "tensor_" + to_string(next_tensor_id_++); legacy: static counter.
CanGenerate(n) == impl = "windows" \/ next_tensor_id_ + n - 1 <= MaxTensorId

\* The identifiers generateTensorId may return in the current state: the
\* counter value, or any 16 hex digits the windows generator draws.
GeneratedIds ==
  IF impl = "windows" THEN RandomIds ELSE {next_tensor_id_}

\* The counter after n calls of generateTensorId.
CounterAfter(n) ==
  IF impl = "windows" THEN next_tensor_id_ ELSE next_tensor_id_ + n

\* ------------------------------------------------------------------- Init
\* The state after the plugin is constructed: empty registries, the linux
\* counters at 1 (TensorManager / SessionManager constructors), the legacy
\* static counters at 0.
InitRegistry ==
  /\ impl \in Impls
  /\ tensors_ = EmptyMap
  /\ tensor_types_ = EmptyMap
  /\ tensor_shapes_ = EmptyMap
  /\ tensor_data_buffers_ = EmptyMap
  /\ next_tensor_id_ = (IF impl = "linux" THEN 1 ELSE 0)
  /\ sessions_ = EmptyMap
  /\ next_session_id_ = (IF impl = "legacy" THEN 0 ELSE 1)
  /\ resp = NoResp
  /\ minted = {}
  /\ released = {}
  /\ pc = [t \in Threads |-> "idle"]
  /\ loc = [t \in Threads |-> NoLocals]
  /\ held = [t \in Threads |-> {}]
  /\ prog = [t \in Threads |-> <<>>]

Init == InitRegistry /\ calc = NoCalc

\* History kept when a response hands the identifiers ids to the caller.
Issue(ids) ==
  /\ minted' = minted \cup ids
  /\ released' = released

\* ---------------------------------------------------------- createOrtValue
\* linux: create_ort_value -> TensorManager::create<T>Tensor.  The identifier
\* is taken before CreateTensor runs; an Ort::Exception yields "".
CreateLinux(req) ==
  LET id == next_tensor_id_
      ok == OrtCreateTensorOk(Len(req.data), req.shape)
  IN /\ impl = "linux"
     /\ CanGenerate(1)
     /\ next_tensor_id_' = CounterAfter(1)
     /\ UNCHANGED tensor_data_buffers_
     /\ IF ok
        THEN /\ tensors_' = Put(tensors_, id,
                                Tensor(req.sourceType, req.shape, req.data, "own"))
             /\ tensor_types_' = Put(tensor_types_, id, req.sourceType)
             /\ tensor_shapes_' = Put(tensor_shapes_, id, req.shape)
             /\ resp' = [Success("createOrtValue") EXCEPT
                           !.valueId = id, !.dataType = req.sourceType,
                           !.shape = req.shape, !.minted = {id}, !.req = req]
             /\ Issue({id})
        ELSE /\ UNCHANGED <<tensors_, tensor_types_, tensor_shapes_, histVars>>
             /\ resp' = [Failure("createOrtValue", "Failed to create tensor") EXCEPT !.req = req]

\* TensorManager::createOrtValue (windows): the element count handed to
\* CreateTensor is derived from the shape alone, 0 for an empty shape.
WindowsElementCount(shape) == IF shape = <<>> THEN 0 ELSE Product(shape)

\* windows: HandleCreateOrtValue -> TensorManager::create<T>Tensor.  The
\* buffer is stored under the new identifier before createOrtValue runs; a
\* tensor already stored under that identifier viewed the buffer this
\* assignment frees.
CreateWindows(req) ==
  \E id \in GeneratedIds :
    LET ok == OrtCreateTensorOk(WindowsElementCount(req.shape), req.shape)
    IN /\ impl = "windows"
       /\ tensor_data_buffers_' = Put(tensor_data_buffers_, id, req.data)
       /\ UNCHANGED next_tensor_id_
       /\ IF ok
          THEN /\ tensors_' = Put(tensors_, id,
                                  Tensor(req.sourceType, req.shape, req.data, "buffer"))
               /\ tensor_types_' = Put(tensor_types_, id, req.sourceType)
               /\ tensor_shapes_' = Put(tensor_shapes_, id, req.shape)
               /\ resp' = [Success("createOrtValue") EXCEPT
                             !.valueId = id, !.dataType = req.sourceType,
                             !.shape = req.shape, !.minted = {id}, !.req = req]
               /\ Issue({id})
          ELSE /\ tensors_' =
                    IF id \in DOMAIN tensors_ /\ tensors_[id].storage = "buffer"
                    THEN Put(tensors_, id, [tensors_[id] EXCEPT !.storage = "freed"])
                    ELSE tensors_
               /\ UNCHANGED <<tensor_types_, tensor_shapes_, histVars>>
               /\ resp' = [Failure("createOrtValue", "ORT_ERROR") EXCEPT !.req = req]

\* legacy: the createOrtValue branch of the method call handler.  Only
\* float32 creates a tensor; the tensor views the local vector float_data,
\* which is destroyed when the handler returns.  The size check returns
\* without answering the call.
CreateLegacy(req) ==
  /\ impl = "legacy"
  /\ UNCHANGED <<tensor_types_, tensor_shapes_, tensor_data_buffers_>>
  /\ IF req.shape = <<>>
     THEN /\ resp' = [Failure("createOrtValue", "INVALID_SHAPE") EXCEPT !.req = req]
          /\ UNCHANGED <<tensors_, next_tensor_id_, histVars>>
     ELSE IF req.sourceType \in {"int32", "int64", "float16"}
     THEN /\ resp' = [Failure("createOrtValue", "MISSING_RESPONSE") EXCEPT !.req = req]
          /\ UNCHANGED <<tensors_, next_tensor_id_, histVars>>
     ELSE IF req.sourceType # "float32"
     THEN /\ resp' = [Failure("createOrtValue", "UNSUPPORTED_TYPE") EXCEPT !.req = req]
          /\ UNCHANGED <<tensors_, next_tensor_id_, histVars>>
     ELSE IF Len(req.data) # Product(req.shape)
     THEN /\ resp' = [Unanswered("createOrtValue", "SHAPE_MISMATCH") EXCEPT !.req = req]
          /\ UNCHANGED <<tensors_, next_tensor_id_, histVars>>
     ELSE LET id == next_tensor_id_
          IN /\ CanGenerate(1)
             /\ next_tensor_id_' = CounterAfter(1)
             /\ tensors_' = Put(tensors_, id,
                                Tensor("float32", req.shape, req.data, "freed"))
             /\ resp' = [Success("createOrtValue") EXCEPT
                           !.valueId = id, !.dataType = "float32",
                           !.shape = req.shape, !.minted = {id}, !.req = req]
             /\ Issue({id})

CreateOrtValue(requests) ==
  /\ \E req \in requests :
        CreateLinux(req) \/ CreateWindows(req) \/ CreateLegacy(req)
  /\ UNCHANGED <<impl, sessionVars, threadVars>>

\* --------------------------------------------------------- releaseOrtValue
\* TensorManager::releaseTensor (linux, windows) / ort_release_tensor
\* (legacy): false when the identifier is not in tensors_, otherwise the
\* entry is erased from every map that has it.
ReleaseTensorReturns(id) == id \in DOMAIN tensors_

\* The response of the releaseOrtValue handler given releaseTensor's result:
\* linux answers null either way, windows and legacy turn false into an error.
ReleaseResponse(ok) ==
  IF ok \/ impl = "linux"
  THEN [Success("releaseOrtValue") EXCEPT !.code = IF ok THEN "true" ELSE "false"]
  ELSE [Failure("releaseOrtValue",
                IF impl = "windows" THEN "INVALID_VALUE" ELSE "RELEASE_ERROR")
          EXCEPT !.data = <<>>]

ReleaseOrtValue ==
  /\ \E id \in HandleArgs :
       LET ok == ReleaseTensorReturns(id)
       IN /\ resp' = [ReleaseResponse(ok) EXCEPT !.valueId = id]
          /\ IF ok
             THEN /\ tensors_' = Erase(tensors_, id)
                  /\ tensor_types_' = Erase(tensor_types_, id)
                  /\ tensor_shapes_' = Erase(tensor_shapes_, id)
                  /\ tensor_data_buffers_' = Erase(tensor_data_buffers_, id)
                  /\ released' = released \cup {id}
                  /\ minted' = minted
             ELSE UNCHANGED <<tensors_, tensor_types_, tensor_shapes_,
                              tensor_data_buffers_, histVars>>
  /\ UNCHANGED <<impl, next_tensor_id_, sessionVars, threadVars>>

\* --------------------------------------------------------- getOrtValueData
\* TensorManager::getTensor: the stored value, or a null pointer.
GetTensorFound(id) == id \in DOMAIN tensors_

\* TensorManager::getTensorData (linux, windows): null unless all three maps
\* know the identifier.
GetTensorDataFound(id) ==
  /\ id \in DOMAIN tensors_
  /\ id \in DOMAIN tensor_types_
  /\ id \in DOMAIN tensor_shapes_

\* The responses getOrtValueData can give for id.
\* linux: get_ort_value_data; windows: HandleGetOrtValueData, which asks
\* getTensor first; legacy: ort_get_tensor_data, where a moved-from value
\* makes GetTypeInfo fail or crash.
GetResponses(id) ==
  IF impl = "legacy"
  THEN IF ~GetTensorFound(id)
       THEN {Failure("getOrtValueData", "DATA_EXTRACTION_ERROR")}
       ELSE IF tensors_[id].kind # "tensor"
       THEN {Failure("getOrtValueData", "DATA_EXTRACTION_ERROR"),
             Unanswered("getOrtValueData", "crash")}
       ELSE {[Success("getOrtValueData") EXCEPT
                !.shape = tensors_[id].shape,
                !.data = Encode(tensors_[id].etype, r)] :
               r \in ReadOutcomes(tensors_[id])}
  ELSE IF impl = "windows" /\ ~GetTensorFound(id)
  THEN {Failure("getOrtValueData", "INVALID_VALUE")}
  ELSE IF ~GetTensorDataFound(id)
  THEN {IF impl = "linux"
        THEN Failure("getOrtValueData", "Tensor not found")
        ELSE [Success("getOrtValueData") EXCEPT !.code = "null"]}
  ELSE IF tensor_types_[id] \notin CreatableTypes
  THEN {Failure("getOrtValueData", "Unsupported tensor type")}
  ELSE {[Success("getOrtValueData") EXCEPT
           !.dataType = tensor_types_[id],
           !.shape = tensor_shapes_[id],
           !.data = Encode(tensor_types_[id], r)] :
          r \in ReadOutcomes(tensors_[id])}

GetOrtValueData ==
  /\ \E id \in HandleArgs :
       \E r \in GetResponses(id) : resp' = [r EXCEPT !.valueId = id]
  /\ UNCHANGED <<impl, tensors_, tensor_types_, tensor_shapes_,
                 tensor_data_buffers_, next_tensor_id_, sessionVars, histVars,
                 threadVars>>

\* --------------------------------------------------------- convertOrtValue
Int32Max == 2147483647
Int32Min == -Int32Max - 1

\* --------------------------------------------------------- int64 arithmetic
\* An int64 value is q * 2^32 + r with r in the int32 range: r is what the
\* low 32 bits read as an int32, q counts the multiples of 2^32 on top.
W(q, r) == [q |-> q, r |-> r]

\* val < n and val > n for an int64 val and an int32 n.
Int64Below(x, n) == x.q < 0 \/ (x.q = 0 /\ x.r < n)
Int64Above(x, n) == x.q > 0 \/ (x.q = 0 /\ x.r > n)

\* windows convertInt64To, one element to int32: clamp, then the cast.
Int64ToInt32Windows(x) ==
  IF Int64Above(x, Int32Max) THEN Int32Max
  ELSE IF Int64Below(x, Int32Min) THEN Int32Min
  ELSE x.r

\* legacy ort_convert_tensor and ort_get_tensor_data, one element to int32:
\* static_cast<int32_t>(int64_t) keeps the low 32 bits.
Int64ToInt32Legacy(x) == x.r

\* windows convertInt64To, one element to uint8.
Int64ToUint8Windows(x) ==
  IF Int64Below(x, 0) THEN 0 ELSE IF Int64Above(x, 255) THEN 255 ELSE x.r

\* windows convert<S>To: one element x of type src as type dst, for the
\* integral payloads of these callers.  float32 and the integers are clamped
\* into 0..255 for uint8, int64 is clamped into the int32 range, anything
\* becomes a bool by comparison with 0 and a bool becomes 1 or 0.
ConvertElemWindows(src, dst, x) ==
  IF dst = "bool" \/ src = "bool" THEN (IF x # 0 THEN 1 ELSE 0)
  ELSE IF src = "float32" /\ dst = "uint8" THEN Float32ToUint8Windows(F(x, 0))
  ELSE IF src = "float32" /\ dst \in {"int32", "int64"}
  THEN Float32ToIntWindows(F(x, 0))
  ELSE IF dst = "uint8" THEN (IF x < 0 THEN 0 ELSE IF x > 255 THEN 255 ELSE x)
  ELSE IF dst = "int32" /\ src = "int64" THEN Int64ToInt32Windows(W(0, x))
  ELSE x

\* The (source, target) pairs ort_convert_tensor (legacy) has a rule for.
LegacyRules ==
  {<<"float32", "float16">>, <<"float16", "float32">>, <<"float32", "int32">>,
   <<"int32", "float32">>, <<"int32", "int64">>, <<"int64", "int32">>}

\* The target type names ort_convert_tensor maps to an element type.
LegacyTargets == CreatableTypes \cup {"float16"}

\* legacy conversion of one element, for the integral payloads of these
\* callers: a static_cast between float32 and the integers, Float16Utils
\* between float32 and float16 (a float16 element is its uint16_t pattern).
ConvertElemLegacy(src, dst, x) ==
  IF src = "float32" /\ dst = "int32" THEN Float32ToIntLegacy(F(x, 0))
  ELSE IF src = "float32" /\ dst = "float16" THEN floatToFloat16(Float32Bits(x))
  ELSE IF src = "float16" /\ dst = "float32"
  THEN Float32Trunc(Float32Value(float16ToFloat(x)))
  ELSE IF src = "int64" /\ dst = "int32" THEN Int64ToInt32Legacy(W(0, x))
  ELSE x

\* linux: convert_ort_value ignores its arguments, takes a new identifier,
\* notes it in the plugin's values map and answers with it; no tensor is
\* registered.
ConvertLinux(h, target) ==
  /\ impl = "linux"
  /\ CanGenerate(1)
  /\ next_tensor_id_' = CounterAfter(1)
  /\ resp' = [Success("convertOrtValue") EXCEPT
                !.valueId = next_tensor_id_, !.dataType = "float32",
                !.minted = {next_tensor_id_}, !.source = h, !.target = target]
  /\ Issue({next_tensor_id_})
  /\ UNCHANGED <<tensors_, tensor_types_, tensor_shapes_, tensor_data_buffers_>>

\* The CONVERSION_ERROR response whose message names the types in named.
ConversionError(h, target, message, named) ==
  [Failure("convertOrtValue", "CONVERSION_ERROR") EXCEPT
     !.message = message, !.named = named, !.source = h, !.target = target]

\* windows: HandleConvertOrtValue -> TensorManager::convertTensor and
\* convert<S>To.  The new buffer is stored under the drawn identifier, the
\* tensor is built over it and stored with its type and shape.
ConvertWindows(h, target) ==
  /\ impl = "windows"
  /\ UNCHANGED next_tensor_id_
  /\ IF ~GetTensorDataFound(h)
     THEN /\ resp' = ConversionError(h, target, "Tensor not found", {})
          /\ UNCHANGED <<tensors_, tensor_types_, tensor_shapes_,
                         tensor_data_buffers_, histVars>>
     ELSE IF tensors_[h].kind # "tensor"
     THEN /\ resp' = ConversionError(h, target, "not a tensor", {})
          /\ UNCHANGED <<tensors_, tensor_types_, tensor_shapes_,
                         tensor_data_buffers_, histVars>>
     ELSE IF target \notin CreatableTypes
     THEN /\ resp' = ConversionError(h, target, "Unsupported type: target", {target})
          /\ UNCHANGED <<tensors_, tensor_types_, tensor_shapes_,
                         tensor_data_buffers_, histVars>>
     ELSE \E id \in GeneratedIds, r \in ReadOutcomes(tensors_[h]) :
       LET src == tensor_types_[h]
           shape == tensors_[h].shape
           elems == [i \in 1..Len(r) |-> IF src = target THEN r[i]
                                         ELSE ConvertElemWindows(src, target, r[i])]
           ok == OrtCreateTensorOk(WindowsElementCount(shape), shape)
       IN /\ tensor_data_buffers_' = Put(tensor_data_buffers_, id, elems)
          /\ IF ok
             THEN /\ tensors_' = Put(tensors_, id, Tensor(target, shape, elems, "buffer"))
                  /\ tensor_types_' = Put(tensor_types_, id, target)
                  /\ tensor_shapes_' = Put(tensor_shapes_, id, shape)
                  /\ resp' = [Success("convertOrtValue") EXCEPT
                                !.valueId = id, !.dataType = target, !.shape = shape,
                                !.minted = {id}, !.source = h, !.target = target]
                  /\ Issue({id})
             ELSE /\ tensors_' =
                       IF id \in DOMAIN tensors_ /\ tensors_[id].storage = "buffer"
                       THEN Put(tensors_, id, [tensors_[id] EXCEPT !.storage = "freed"])
                       ELSE tensors_
                  /\ UNCHANGED <<tensor_types_, tensor_shapes_, histVars>>
                  /\ resp' = ConversionError(h, target, "CreateTensor failed", {})

\* legacy: the convertOrtValue branch -> ort_convert_tensor.  A value that
\* already has the target type is answered with its own identifier; a
\* converted tensor views a local vector that is destroyed on return.
ConvertLegacy(h, target) ==
  /\ impl = "legacy"
  /\ UNCHANGED <<tensor_types_, tensor_shapes_, tensor_data_buffers_>>
  /\ IF ~GetTensorFound(h)
     THEN /\ resp' = ConversionError(h, target, "OrtValue not found", {})
          /\ UNCHANGED <<tensors_, next_tensor_id_, histVars>>
     ELSE IF tensors_[h].kind # "tensor"
     THEN /\ \E r \in {ConversionError(h, target, "no type info", {}),
                       [Unanswered("convertOrtValue", "crash") EXCEPT
                          !.source = h, !.target = target]} : resp' = r
          /\ UNCHANGED <<tensors_, next_tensor_id_, histVars>>
     ELSE IF target \notin LegacyTargets
     THEN /\ resp' = ConversionError(h, target, "Unsupported target data type: target",
                                     {target})
          /\ UNCHANGED <<tensors_, next_tensor_id_, histVars>>
     ELSE IF tensors_[h].etype = target
     THEN /\ resp' = [Success("convertOrtValue") EXCEPT
                        !.valueId = h, !.dataType = target,
                        !.shape = tensors_[h].shape, !.source = h, !.target = target]
          /\ UNCHANGED <<tensors_, next_tensor_id_, histVars>>
     ELSE IF <<tensors_[h].etype, target>> \notin LegacyRules
     THEN /\ resp' = ConversionError(h, target,
                                     "Unsupported conversion from source to target",
                                     {tensors_[h].etype, target})
          /\ UNCHANGED <<tensors_, next_tensor_id_, histVars>>
     ELSE \E r \in ReadOutcomes(tensors_[h]) :
       LET id == next_tensor_id_
           elems == [i \in 1..Len(r) |-> ConvertElemLegacy(tensors_[h].etype, target, r[i])]
       IN /\ CanGenerate(1)
          /\ next_tensor_id_' = CounterAfter(1)
          /\ tensors_' = Put(tensors_, id, Tensor(target, tensors_[h].shape, elems, "freed"))
          /\ resp' = [Success("convertOrtValue") EXCEPT
                        !.valueId = id, !.dataType = target,
                        !.shape = tensors_[h].shape, !.minted = {id},
                        !.source = h, !.target = target]
          /\ Issue({id})

ConvertOrtValue ==
  /\ \E h \in HandleArgs, target \in TargetTypes :
        ConvertLinux(h, target) \/ ConvertWindows(h, target) \/ ConvertLegacy(h, target)
  /\ UNCHANGED <<impl, sessionVars, threadVars>>

\* ---------------------------------------------------------------- sessions
\* The implementations built on TensorManager / SessionManager.
Managed == impl \in {"linux", "windows"}

\* The model file every loadable path names: its declared input and output
\* names, in declaration order.
InputNames == <<"x", "y">>
OutputNames == <<"o1", "o2">>

\* Model paths a caller passes: one that loads and two that do not.
ModelPaths == {"model.onnx", "missing.onnx", "malformed.onnx"}
Loads(path) == path = "model.onnx"

\* What the Ort::Exception thrown by the Ort::Session constructor says.
EngineMessage(path) ==
  IF path = "missing.onnx" THEN "Load model failed: file doesn't exist"
  ELSE "Load model failed: protobuf parsing failed"

\* Session identifiers a caller may pass.
SessionArgs == 0..MaxSessionId

\* The response to a createSession whose model does not load.  linux:
\* createSession catches the exception, prints it and returns "", and
\* create_session answers with a fixed text.  windows: createSession
\* rethrows and HandleCreateSession answers ORT_ERROR with e.what(), as does
\* the legacy handler.
LoadFailure(path) ==
  [Failure("createSession",
           IF impl = "linux" THEN "Failed to create session" ELSE "ORT_ERROR")
     EXCEPT !.message = IF impl = "linux" THEN "Failed to create session"
                        ELSE EngineMessage(path),
            !.model = path]

\* SessionManager::createSession (linux, windows) takes the identifier first
\* and keeps the counter advanced when loading fails; the legacy handler
\* calls generate_session_uuid only after the session loaded.
CreateSession ==
  /\ next_session_id_ <= MaxSessionId
  /\ \E path \in ModelPaths :
       LET id == next_session_id_
       IN IF Loads(path)
          THEN /\ sessions_' = Put(sessions_, id, path)
               /\ next_session_id_' = next_session_id_ + 1
               /\ resp' = [Success("createSession") EXCEPT
                             !.valueId = id, !.model = path]
          ELSE /\ sessions_' = sessions_
               /\ next_session_id_' =
                    IF impl = "legacy" THEN next_session_id_ ELSE next_session_id_ + 1
               /\ resp' = LoadFailure(path)
  /\ UNCHANGED <<impl, tensors_, tensor_types_, tensor_shapes_,
                 tensor_data_buffers_, next_tensor_id_, histVars, threadVars>>

CloseSessionAlwaysTrue(sid) == TRUE

\* SessionManager::closeSession (linux, windows) and the legacy lookup in
\* g_sessions: true when the identifier is registered.
CloseSessionReturns(sid) == sid \in DOMAIN sessions_

\* SessionManager::hasSession.
HasSession(sid) == sid \in DOMAIN sessions_

\* The response of the closeSession handler given closeSession's result: the
\* linux and windows handlers drop it and answer null, the legacy handler
\* turns false into an error.
CloseResponse(ok) ==
  IF ok \/ impl # "legacy"
  THEN [Success("closeSession") EXCEPT !.code = IF ok THEN "true" ELSE "false"]
  ELSE Failure("closeSession", "INVALID_SESSION")

CloseSession ==
  /\ \E sid \in SessionArgs :
       LET ok == CloseSessionReturns(sid)
       IN /\ resp' = [CloseResponse(ok) EXCEPT !.valueId = sid]
          /\ sessions_' = IF ok THEN Erase(sessions_, sid) ELSE sessions_
  /\ UNCHANGED <<impl, tensors_, tensor_types_, tensor_shapes_,
                 tensor_data_buffers_, next_tensor_id_, next_session_id_,
                 histVars, threadVars>>

\* SessionManager::getInputNames / getOutputNames: the cached names of a
\* registered session, an empty vector for any other identifier.
GetInputNames(sid) == IF sid \in DOMAIN sessions_ THEN InputNames ELSE <<>>
GetOutputNames(sid) == IF sid \in DOMAIN sessions_ THEN OutputNames ELSE <<>>

\* A call of getInputNames or getOutputNames; both return normally.
GetNames ==
  /\ Managed
  /\ \E sid \in SessionArgs :
       \/ resp' = [Success("getInputNames") EXCEPT
                     !.session = sid, !.names = GetInputNames(sid)]
       \/ resp' = [Success("getOutputNames") EXCEPT
                     !.session = sid, !.names = GetOutputNames(sid)]
  /\ UNCHANGED <<impl, tensors_, tensor_types_, tensor_shapes_,
                 tensor_data_buffers_, next_tensor_id_, sessionVars, histVars,
                 threadVars>>

\* ------------------------------------------------------------ Compute Engine
\* The i-th output of an engine call made by caller tag.
EngineOutput(tag, i) ==
  Tensor("float32", <<1>>, <<Sample("output", 10 * tag + i)>>, "own")

\* What Ort::Session::Run can do when asked for k outputs: throw, or return
\* k values, the tensor of its position each, except for at most one value
\* that is no tensor.
EngineResults(tag, k) ==
  {[threw |-> TRUE, outputs |-> <<>>]} \cup
  {[threw |-> FALSE,
    outputs |-> [i \in 1..k |-> IF i = n THEN NonTensor ELSE EngineOutput(tag, i)]] :
     n \in 0..k}

\* ------------------------------------------------------------- runInference
\* The inputs maps a caller passes, as the sequence of its entries in
\* iteration order: at most one entry for each declared input name, in the
\* order of the names (the order in which a std::map iterates, in which the
\* legacy handler walks the declared names, and in which these callers
\* fill the map).
InputEntries == {[name |-> InputNames[k], handle |-> h] :
                   k \in 1..Len(InputNames), h \in 0..MaxInputHandle}

InputMaps ==
  {<<>>} \cup {<<e>> : e \in InputEntries} \cup
  {p \in InputEntries \X InputEntries :
     p[1].name = InputNames[1] /\ p[2].name = InputNames[2]}

\* The copies a clone of v can be: a tensor over its own storage holding
\* what reading v yields.
CloneOutcomes(v) ==
  {Tensor(v.etype, v.shape, r, "own") : r \in ReadOutcomes(v)}

\* TensorManager::cloneTensor (windows; declared in tensor_manager.h, its
\* definition is not part of the sources): fails for a value that is no
\* tensor.  linux: the switch on the element type in run_inference.
Clonable(v) ==
  IF impl = "windows" THEN v.kind = "tensor" ELSE v.etype \in CreatableTypes

RECURSIVE CloneInputs(_)
\* The input vectors the input loop can build: one clone for every entry
\* whose handle resolves, in iteration order; other entries are skipped.
CloneInputs(ins) ==
  IF ins = <<>> THEN {<<>>}
  ELSE LET e == Head(ins)
           rest == CloneInputs(Tail(ins))
       IN IF ~GetTensorFound(e.handle) \/ ~Clonable(tensors_[e.handle])
          THEN rest
          ELSE {<<[name |-> e.name, handle |-> e.handle, value |-> c]>> \o r :
                  c \in CloneOutcomes(tensors_[e.handle]), r \in rest}

\* linux: GetTensorTypeAndShapeInfo on a stored value that is no tensor
\* throws inside the input loop.
InputLoopThrows(ins) ==
  /\ impl = "linux"
  /\ \E i \in 1..Len(ins) :
        /\ GetTensorFound(ins[i].handle)
        /\ tensors_[ins[i].handle].kind # "tensor"

\* What Session::Run receives: the k-th tensor under the k-th declared name.
EngineFeed(fed) ==
  [k \in 1..Len(fed) |->
     [engineName |-> InputNames[k], name |-> fed[k].name,
      handle |-> fed[k].handle, value |-> fed[k].value]]

\* The three registry maps as one value.
Registry == [t |-> tensors_, ty |-> tensor_types_, sh |-> tensor_shapes_]

\* TensorManager::storeTensor: the value is stored first; type and shape
\* are recorded only if GetTensorTypeAndShapeInfo succeeds.
StoreTensor(R, id, v) ==
  [t  |-> Put(R.t, id, v),
   ty |-> IF v.kind = "tensor" THEN Put(R.ty, id, v.etype) ELSE R.ty,
   sh |-> IF v.kind = "tensor" THEN Put(R.sh, id, v.shape) ELSE R.sh]

\* Whether storing and describing output v under id throws: windows
\* storeTensor rethrows; linux storeTensor swallows and getTensorType /
\* getTensorShape throw from at().
DescribeThrows(R, id, v) ==
  IF impl = "windows" THEN v.kind # "tensor"
  ELSE id \notin DOMAIN R.ty \/ id \notin DOMAIN R.sh

RECURSIVE StoreOutputs(_, _, _, _)
\* The output loop from index i on: store outs[i] under ids[i], describe it,
\* add the entry for the i-th output name; an exception ends the loop.
StoreOutputs(R, outs, ids, i) ==
  IF i > Len(outs)
  THEN [reg |-> R, entries |-> <<>>, failed |-> FALSE, used |-> 0]
  ELSE LET R1 == StoreTensor(R, ids[i], outs[i])
       IN IF DescribeThrows(R1, ids[i], outs[i])
          THEN [reg |-> R1, entries |-> <<>>, failed |-> TRUE, used |-> 1]
          ELSE LET rest == StoreOutputs(R1, outs, ids, i + 1)
               IN [reg |-> rest.reg,
                   entries |-> <<[name |-> OutputNames[i], valueId |-> ids[i],
                                  dataType |-> R1.ty[ids[i]],
                                  shape |-> R1.sh[ids[i]]]>> \o rest.entries,
                   failed |-> rest.failed,
                   used |-> rest.used + 1]

\* The identifier sequences the output loop can draw for k outputs.
OutputIds(k) ==
  IF impl = "windows" THEN [1..k -> RandomIds]
  ELSE {[i \in 1..k |-> next_tensor_id_ + i - 1]}

\* Mutation of RunError: the catch block answers like the normal exit of
\* the handler.
RunErrorAsSuccess(code, message) ==
  [Success("runInference") EXCEPT !.message = message]

\* The error response of run_inference (an "error" entry holding e.what())
\* and of HandleRunInference (an error code and e.what()).
RunError(code, message) ==
  [Failure("runInference", IF impl = "linux" THEN message ELSE code)
     EXCEPT !.message = message]

\* A runInference response, with the number of entries of the inputs map
\* whose handle was not in the registry when the handler started.
Answer(r, sid, ins) ==
  [r EXCEPT !.session = sid,
            !.unresolved =
     IF sid \in DOMAIN sessions_
     THEN Cardinality({i \in 1..Len(ins) : ~GetTensorFound(ins[i].handle)})
     ELSE 0]

\* linux run_inference and windows HandleRunInference.
RunManaged(sid, ins) ==
  /\ impl \in {"linux", "windows"}
  /\ UNCHANGED tensor_data_buffers_
  /\ IF sid \notin DOMAIN sessions_
     THEN /\ resp' = Answer(RunError("INVALID_SESSION", "Session not found"), sid, ins)
          /\ UNCHANGED <<tensors_, tensor_types_, tensor_shapes_,
                         next_tensor_id_, histVars>>
     ELSE IF InputLoopThrows(ins)
     THEN /\ resp' = Answer(RunError("INFERENCE_FAILED", "not a tensor"), sid, ins)
          /\ UNCHANGED <<tensors_, tensor_types_, tensor_shapes_,
                         next_tensor_id_, histVars>>
     ELSE \E fed \in CloneInputs(ins) :
       IF fed = <<>>
       THEN /\ resp' = Answer([Success("runInference") EXCEPT !.engine = "skipped"], sid, ins)
            /\ UNCHANGED <<tensors_, tensor_types_, tensor_shapes_,
                           next_tensor_id_, histVars>>
       ELSE \E res \in EngineResults(0, Len(OutputNames)) :
         IF res.threw
         THEN /\ resp' = Answer([RunError("INFERENCE_FAILED", "engine failure") EXCEPT
                            !.engine = "threw", !.fed = EngineFeed(fed)], sid, ins)
              /\ UNCHANGED <<tensors_, tensor_types_, tensor_shapes_,
                             next_tensor_id_, histVars>>
         ELSE /\ CanGenerate(Len(res.outputs))
              /\ \E ids \in OutputIds(Len(res.outputs)) :
                   LET st == StoreOutputs(Registry, res.outputs, ids, 1)
                   IN /\ tensors_' = st.reg.t
                      /\ tensor_types_' = st.reg.ty
                      /\ tensor_shapes_' = st.reg.sh
                      /\ next_tensor_id_' = CounterAfter(st.used)
                      /\ IF st.failed
                         THEN /\ resp' = Answer([RunError("INFERENCE_FAILED", "not a tensor")
                                            EXCEPT !.engine = "returned",
                                                   !.fed = EngineFeed(fed),
                                                   !.got = res.outputs], sid, ins)
                              /\ UNCHANGED histVars
                         ELSE /\ resp' = Answer([Success("runInference") EXCEPT
                                            !.engine = "returned",
                                            !.fed = EngineFeed(fed),
                                            !.got = res.outputs,
                                            !.outputs = st.entries,
                                            !.minted = {ids[i] : i \in 1..Len(ids)}], sid, ins)
                              /\ Issue({ids[i] : i \in 1..Len(ids)})

\* The handle the inputs map gives for a declared name, -1 if it has none.
HandleFor(ins, name) ==
  IF \E i \in 1..Len(ins) : ins[i].name = name
  THEN (CHOOSE e \in {ins[i] : i \in 1..Len(ins)} : e.name = name).handle
  ELSE -1

RECURSIVE LegacyInputs(_, _, _, _)
\* legacy: the loop over the declared input names from index k on.  A found
\* tensor is moved out of g_ort_values, which keeps an empty value; a handle
\* that is not in g_ort_values, or whose value is empty, ends the handler
\* (ub tells what IsTensor does on the empty value).
LegacyInputs(t, ins, k, ub) ==
  IF k > Len(InputNames)
  THEN [t |-> t, fed |-> <<>>, fatal |-> ""]
  ELSE LET h == HandleFor(ins, InputNames[k])
       IN IF h = -1 THEN LegacyInputs(t, ins, k + 1, ub)
          ELSE IF h \notin DOMAIN t
          THEN [t |-> t, fed |-> <<>>, fatal |-> "INVALID_ORT_VALUE"]
          ELSE IF t[h].kind # "tensor"
          THEN [t |-> t, fed |-> <<>>, fatal |-> ub]
          ELSE LET rest == LegacyInputs(Put(t, h, EmptyValue), ins, k + 1, ub)
               IN [t |-> rest.t,
                   fed |-> <<[engineName |-> InputNames[k], name |-> InputNames[k],
                              handle |-> h, value |-> t[h]]>> \o rest.fed,
                   fatal |-> rest.fatal]

\* legacy: the runInference branch of the method call handler.  The two
\* "not found / not valid" exits return without answering the call; outputs
\* are sent inline, no handle is minted.
RunLegacy(sid, ins) ==
  /\ impl = "legacy"
  /\ UNCHANGED <<tensor_types_, tensor_shapes_, tensor_data_buffers_,
                 next_tensor_id_, histVars>>
  /\ IF sid \notin DOMAIN sessions_
     THEN /\ resp' = Answer(Failure("runInference", "INVALID_SESSION"), sid, ins)
          /\ UNCHANGED tensors_
     ELSE \E ub \in {"INVALID_TENSOR", "ORT_ERROR"} :
       LET scan == LegacyInputs(tensors_, ins, 1, ub)
       IN /\ tensors_' = scan.t
          /\ IF scan.fatal = "ORT_ERROR"
             THEN resp' = Answer([Failure("runInference", "ORT_ERROR") EXCEPT
                                    !.fed = scan.fed], sid, ins)
             ELSE IF scan.fatal # ""
             THEN resp' = Answer([Unanswered("runInference", scan.fatal) EXCEPT
                                    !.fed = scan.fed], sid, ins)
             ELSE \E res \in EngineResults(0, Len(OutputNames)) :
               IF res.threw
               THEN resp' = Answer([Failure("runInference", "ORT_ERROR") EXCEPT
                               !.engine = "threw", !.fed = scan.fed,
                               !.message = "engine failure"], sid, ins)
               ELSE IF \E i \in 1..Len(res.outputs) : res.outputs[i].kind # "tensor"
               THEN resp' = Answer([Failure("runInference", "ORT_ERROR") EXCEPT
                               !.engine = "returned", !.fed = scan.fed,
                               !.got = res.outputs, !.message = "not a tensor"], sid, ins)
               ELSE resp' = Answer([Success("runInference") EXCEPT
                               !.engine = "returned", !.fed = scan.fed,
                               !.got = res.outputs,
                               !.outputs =
                                 [i \in 1..Len(res.outputs) |->
                                    [name |-> OutputNames[i], valueId |-> -1,
                                     dataType |-> res.outputs[i].etype,
                                     shape |-> res.outputs[i].shape]]], sid, ins)

RunInference ==
  /\ \E sid \in SessionArgs, ins \in InputMaps :
        RunManaged(sid, ins) \/ RunLegacy(sid, ins)
  /\ UNCHANGED <<impl, sessionVars, threadVars>>

\* ------------------------------------------------------------ specification
\* Tensor handlers alone, with every createOrtValue request.
NextTensor ==
  \/ CreateOrtValue(CreateRequests)
  \/ ReleaseOrtValue
  \/ GetOrtValueData

SpecTensor == Init /\ [][NextTensor]_vars

\* Tensor handlers with convertOrtValue, over one tensor of every type.
\* ------------------------------------------------------ element conversions
\* The float32 payloads converted: the quarters around zero, 3.7f and
\* -3.7f (0x406CCCCD), the largest float32 below 0.5 and its negative,
\* 2^23 + 1, and values around and beyond the uint8 range.
Float32Inputs ==
  {F(k, -2) : k \in -MaxQuarter..MaxQuarter}
    \cup {F(15518925, -22), F(-15518925, -22), F(16777215, -25),
          F(-16777215, -25), F(8388609, 0), F(-1200, -2), F(1200, -2),
          F(1019, -2), F(1021, -2), F(255, 0)}

\* The int64 payloads converted: values inside the int32 range and up to
\* 2^32 away from it on either side.
Int64Inputs ==
  {W(q, r) : q \in -1..1,
             r \in {Int32Min, -300, -1, 0, 1, 200, 255, 256, Int32Max}}

\* The float32 bit patterns narrowed to float16: both signs; exponent
\* fields below, at both ends of, inside and above the normal float16
\* range; mantissas whose 13 dropped bits are zero, below, at and above
\* one half of the last kept bit, over an even and an odd kept mantissa.
Float32Patterns ==
  {B(s, e, m) : s \in 0..1, e \in {0, 112, 113, 127, 142, 143, 255},
                m \in {0, 1, 4095, 4096, 4097, 8192, 12287, 12288, 12289,
                       8384512, 8388607}}

\* The float16 bit patterns widened to float32: both signs, every kind of
\* exponent field, the extreme mantissas and two inside.
Float16Patterns ==
  {s * FLOAT16_SIGN_MASK + e * 1024 + m :
     s \in 0..1, e \in {0, 1, 15, 30, 31}, m \in {0, 1, 512, 683, 1023}}

\* The element conversions to evaluate.
NumericInputs ==
  {[NoCalc EXCEPT !.src = "float32", !.x = f, !.done = FALSE] : f \in Float32Inputs}
    \cup {[NoCalc EXCEPT !.src = "int64", !.x = w, !.done = FALSE] : w \in Int64Inputs}
    \cup {[NoCalc EXCEPT !.src = "float32 bits", !.x = b, !.done = FALSE] :
            b \in Float32Patterns}

\* The int32 payloads converted: small values and the values around 2^23
\* and 2^24, where float32 stops holding halves and odd integers.
Int32Inputs ==
  {-16777217, -16777216, -16777215, -8388609, -8388608, -8388607, -3, -1, 0,
   1, 2, 7, 8388607, 8388608, 8388609, 8388610, 16777215, 16777216, 16777217}

\* The float16 and the int32 elements to convert.
IntegerInputs ==
  {[NoCalc EXCEPT !.src = "float16", !.x = h, !.done = FALSE] :
     h \in Float16Patterns}
    \cup {[NoCalc EXCEPT !.src = "int32", !.x = n, !.done = FALSE] :
            n \in Int32Inputs}

InitNumeric ==
  /\ InitRegistry
  /\ (calc \in NumericInputs \/ calc \in IntegerInputs)

\* What evaluating an element conversion leaves alone.
registryVars == <<impl, tensors_, tensor_types_, tensor_shapes_,
                  tensor_data_buffers_, next_tensor_id_, sessionVars, resp,
                  histVars, pc, loc, held, prog>>

\* The implementation converts elements of type src to type dst (the
\* linux convert_ort_value converts nothing).
ConvertsElem(src, dst) ==
  \/ impl = "windows" /\ dst \in CreatableTypes
  \/ impl = "legacy" /\ <<src, dst>> \in LegacyRules

\* One iteration of a conversion loop over a float32 tensor.
ConvertFloat32Elem ==
  /\ ~calc.done
  /\ calc.src = "float32"
  /\ \E dst \in {"int32", "int64", "uint8"} :
       /\ ConvertsElem("float32", dst)
       /\ calc' = [calc EXCEPT
                     !.dst = dst, !.done = TRUE,
                     !.y = IF impl = "legacy" THEN Float32ToIntLegacy(calc.x)
                           ELSE IF dst = "uint8" THEN Float32ToUint8Windows(calc.x)
                           ELSE Float32ToIntWindows(calc.x)]
  /\ UNCHANGED registryVars

\* One iteration of a conversion loop over an int64 tensor.
ConvertInt64Elem ==
  /\ ~calc.done
  /\ calc.src = "int64"
  /\ \E dst \in {"int32", "uint8"} :
       /\ ConvertsElem("int64", dst)
       /\ calc' = [calc EXCEPT
                     !.dst = dst, !.done = TRUE,
                     !.y = IF impl = "legacy" THEN Int64ToInt32Legacy(calc.x)
                           ELSE IF dst = "uint8" THEN Int64ToUint8Windows(calc.x)
                           ELSE Int64ToInt32Windows(calc.x)]
  /\ UNCHANGED registryVars

\* One iteration of the float32 -> float16 loop of ort_convert_tensor.
FloatToFloat16Elem ==
  /\ ~calc.done
  /\ calc.src = "float32 bits"
  /\ ConvertsElem("float32", "float16")
  /\ calc' = [calc EXCEPT !.dst = "float16", !.done = TRUE,
                          !.y = floatToFloat16(calc.x)]
  /\ UNCHANGED registryVars

\* One iteration of the float16 -> float32 loop of ort_convert_tensor.
Float16ToFloatElem ==
  /\ ~calc.done
  /\ calc.src = "float16"
  /\ ConvertsElem("float16", "float32")
  /\ calc' = [calc EXCEPT !.dst = "float32 bits", !.done = TRUE,
                          !.y = float16ToFloat(calc.x)]
  /\ UNCHANGED registryVars

\* One iteration of the int32 -> float32 loop (static_cast<float>, exact up
\* to 2^24 and rounded beyond); the float32 element it writes is then
\* itself open to conversion.
ConvertInt32Elem ==
  /\ ~calc.done
  /\ calc.src = "int32"
  /\ ConvertsElem("int32", "float32")
  /\ calc' = [calc EXCEPT !.src = "float32", !.x = Float32Round(calc.x, 0),
                          !.via = "int32", !.x0 = calc.x]
  /\ UNCHANGED registryVars

NextNumeric ==
  \/ ConvertInt32Elem
  \/ ConvertFloat32Elem
  \/ ConvertInt64Elem
  \/ FloatToFloat16Elem
  \/ Float16ToFloatElem

SpecNumeric == InitNumeric /\ [][NextNumeric]_vars

NextConvert ==
  \/ CreateOrtValue(TypedRequests)
  \/ ConvertOrtValue
  \/ ReleaseOrtValue
  \/ GetOrtValueData

SpecConvert == Init /\ [][NextConvert]_vars

\* All handlers, with the createOrtValue requests of inference callers.
Next ==
  \/ CreateOrtValue(InputRequests)
  \/ ReleaseOrtValue
  \/ CreateSession
  \/ CloseSession
  \/ GetNames
  \/ RunInference

Spec == Init /\ [][Next]_vars

\* ------------------------------------------------- concurrent runInference
\* run_inference / HandleRunInference called by several threads at once.
\* TensorManager's methods lock its mutex for their own duration only, and
\* generateTensorId is called from the output loop without any lock.

\* The response a thread's call ends with; its locals are dropped.
Respond(t, r) ==
  /\ resp' = r
  /\ pc' = [pc EXCEPT ![t] = "idle"]
  /\ loc' = [loc EXCEPT ![t] = NoLocals]

\* The inputs maps of the concurrent callers: one handle for the first
\* declared input.
SharedInputs == {<<e>> : e \in {f \in InputEntries : f.name = InputNames[1]}}

\* The handler up to and including Session::Run: session lookup, the input
\* loop with its clones, and the engine call of thread t.
RunStart(t) ==
  /\ UNCHANGED lockVars
  /\ pc[t] = "idle"
  /\ UNCHANGED <<impl, tensors_, tensor_types_, tensor_shapes_,
                 tensor_data_buffers_, next_tensor_id_, sessionVars, histVars>>
  /\ \E sid \in SessionArgs, ins \in SharedInputs :
       IF sid \notin DOMAIN sessions_
       THEN Respond(t, Answer(RunError("INVALID_SESSION", "Session not found"), sid, ins))
       ELSE IF InputLoopThrows(ins)
       THEN Respond(t, Answer(RunError("INFERENCE_FAILED", "not a tensor"), sid, ins))
       ELSE \E fed \in CloneInputs(ins) :
         IF fed = <<>>
         THEN Respond(t, Answer([Success("runInference") EXCEPT !.engine = "skipped"],
                                sid, ins))
         ELSE \E res \in EngineResults(t, Len(OutputNames)) :
           IF res.threw
           THEN Respond(t, Answer([RunError("INFERENCE_FAILED", "engine failure") EXCEPT
                                     !.engine = "threw", !.fed = EngineFeed(fed)],
                                  sid, ins))
           ELSE /\ pc' = [pc EXCEPT ![t] = "generate"]
                /\ loc' = [loc EXCEPT ![t] =
                             [fed |-> EngineFeed(fed), outs |-> res.outputs,
                              i |-> 1, id |-> -1, entries |-> <<>>]]
                /\ resp' = resp

\* generateTensorId in the output loop, first half: linux reads
\* next_tensor_id_ (the value the identifier is built from); windows draws
\* its 16 digits from the shared generator.
GenerateTensorId(t) ==
  /\ UNCHANGED lockVars
  /\ pc[t] = "generate"
  /\ CanGenerate(1)
  /\ \E id \in GeneratedIds :
       /\ loc' = [loc EXCEPT ![t].id = id]
       /\ Issue({id})
  /\ pc' = [pc EXCEPT ![t] = IF impl = "linux" THEN "increment" ELSE "store"]
  /\ UNCHANGED <<impl, tensors_, tensor_types_, tensor_shapes_,
                 tensor_data_buffers_, next_tensor_id_, sessionVars, resp>>

\* generateTensorId, second half (linux): next_tensor_id_++ writes back the
\* value it read plus one.
IncrementTensorId(t) ==
  /\ UNCHANGED lockVars
  /\ pc[t] = "increment"
  /\ next_tensor_id_' = loc[t].id + 1
  /\ pc' = [pc EXCEPT ![t] = "store"]
  /\ UNCHANGED <<impl, tensors_, tensor_types_, tensor_shapes_,
                 tensor_data_buffers_, sessionVars, resp, histVars, loc>>

\* storeTensor(value_id, output_tensors[i]) under the TensorManager mutex;
\* the windows one rethrows when the value is no tensor.
StoreOutput(t) ==
  /\ UNCHANGED lockVars
  /\ pc[t] = "store"
  /\ LET v == loc[t].outs[loc[t].i]
         R1 == StoreTensor(Registry, loc[t].id, v)
     IN /\ tensors_' = R1.t
        /\ tensor_types_' = R1.ty
        /\ tensor_shapes_' = R1.sh
        /\ IF impl = "windows" /\ v.kind # "tensor"
           THEN Respond(t, [RunError("INFERENCE_FAILED", "not a tensor") EXCEPT
                              !.engine = "returned", !.fed = loc[t].fed,
                              !.got = loc[t].outs])
           ELSE /\ pc' = [pc EXCEPT ![t] = "describe"]
                /\ UNCHANGED <<resp, loc>>
  /\ UNCHANGED <<impl, tensor_data_buffers_, next_tensor_id_, sessionVars,
                 histVars>>

\* getTensorType / getTensorShape of value_id, the entry of outputs_map, and
\* the end of the loop body: the next output, or the response.
DescribeOutput(t) ==
  /\ UNCHANGED lockVars
  /\ pc[t] = "describe"
  /\ UNCHANGED <<impl, tensors_, tensor_types_, tensor_shapes_,
                 tensor_data_buffers_, next_tensor_id_, sessionVars, histVars>>
  /\ LET l == loc[t]
         entry == [name |-> OutputNames[l.i], valueId |-> l.id,
                   dataType |-> tensor_types_[l.id],
                   shape |-> tensor_shapes_[l.id]]
     IN IF l.id \notin DOMAIN tensor_types_ \/ l.id \notin DOMAIN tensor_shapes_
        THEN Respond(t, [RunError("PLUGIN_ERROR", "Tensor not found") EXCEPT
                           !.engine = "returned", !.fed = l.fed, !.got = l.outs])
        ELSE IF l.i = Len(l.outs)
        THEN Respond(t, [Success("runInference") EXCEPT
                           !.engine = "returned", !.fed = l.fed, !.got = l.outs,
                           !.outputs = l.entries \o <<entry>>,
                           !.minted = {e.valueId : e \in
                                         {(l.entries \o <<entry>>)[j] :
                                            j \in 1..Len(l.entries) + 1}}])
        ELSE /\ pc' = [pc EXCEPT ![t] = "generate"]
             /\ loc' = [loc EXCEPT ![t].i = l.i + 1,
                                   ![t].entries = l.entries \o <<entry>>]
             /\ resp' = resp

\* The implementation whose generator is a counter shared by the threads.
InitConc == Init /\ impl = "linux"

\* Handlers that hold one lock from start to end run as one step; the
\* run_inference calls of the threads interleave at their lock boundaries.
NextConc ==
  \/ CreateOrtValue(InputRequests)
  \/ CreateSession
  \/ \E t \in Threads : RunStart(t)
  \/ \E t \in Threads : GenerateTensorId(t)
  \/ \E t \in Threads : IncrementTensorId(t)
  \/ \E t \in Threads : StoreOutput(t)
  \/ \E t \in Threads : DescribeOutput(t)

SpecConc == InitConc /\ [][NextConc]_vars

\* ------------------------------------------------------------------ locking
\* What a handler does to the shared structures, in program order: lock or
\* unlock a mutex, touch the maps or the counter of a registry (an access;
\* a get when the raw pointer found is kept, an erase when the entry is
\* destroyed), dereference a pointer kept from a registry (a use), call the
\* engine.  The mutexes are "tensor" (TensorManager), "session"
\* (SessionManager) and "plugin" (the linux plugin object); the structures
\* are "tensor" (tensors_, tensor_types_, tensor_shapes_, next_tensor_id_;
\* legacy g_ort_values), "session" (sessions_, next_session_id_; legacy
\* g_sessions) and "generator" (the static random engine of the windows
\* generateTensorId).
LockEv(m) == [kind |-> "lock", what |-> m]
UnlockEv(m) == [kind |-> "unlock", what |-> m]
AccessEv(x) == [kind |-> "access", what |-> x]
GetEv(x) == [kind |-> "get", what |-> x]
EraseEv(x) == [kind |-> "erase", what |-> x]
UseEv(x) == [kind |-> "use", what |-> x]
RunEv == [kind |-> "run", what |-> "engine"]

\* Mutation of Call: the method calls another locking method of its
\* manager from inside its lock_guard.
CallRelocking(m) == <<LockEv(m), LockEv(m), AccessEv(m), UnlockEv(m), UnlockEv(m)>>

\* A method that takes the std::lock_guard of its manager for its whole body.
Call(m) == <<LockEv(m), AccessEv(m), UnlockEv(m)>>

\* getSession / getTensor: the lookup is locked, the raw pointer returned
\* outlives the lock.
GetLocked(m) == <<LockEv(m), GetEv(m), UnlockEv(m)>>

\* closeSession / releaseTensor: the entry is erased, and the object with
\* it, under the lock.
EraseLocked(m) == <<LockEv(m), EraseEv(m), UnlockEv(m)>>

\* Code that touches a structure without taking any mutex.
Bare(x) == <<AccessEv(x)>>

\* generateTensorId: linux increments next_tensor_id_, windows draws from
\* the static generator; neither locks.
GenerateEvents ==
  IF impl = "windows" THEN Bare("generator") ELSE Bare("tensor")

\* SessionManager::runInference with the mutation of storing the outputs
\* before the session mutex is released.
EngineRunStoringInside ==
  <<LockEv("session"), AccessEv("session"), RunEv>> \o Call("tensor")
    \o <<UnlockEv("session")>>

\* The engine call.  windows SessionManager::runInference keeps mutex_
\* locked across session->Run; linux run_inference and the legacy handler
\* call session->Run on the pointer they looked up.
EngineRun ==
  IF impl = "windows"
  THEN <<LockEv("session"), AccessEv("session"), RunEv, UnlockEv("session")>>
  ELSE <<UseEv("session"), RunEv>>

\* The method-channel handlers.
Handlers ==
  {"createOrtValue", "convertOrtValue", "getOrtValueData", "releaseOrtValue",
   "createSession", "closeSession", "runInference"}

\* runInference with one input and one output.
RunProgram ==
  CASE impl = "linux" ->
         GetLocked("session") \o Call("session") \o Call("session") \* getSession, names
           \o GetLocked("tensor") \o <<UseEv("tensor")>>          \* getTensor, memcpy
           \o EngineRun
           \o GenerateEvents \o Call("tensor")                    \* storeTensor
           \o Call("tensor") \o Call("tensor")                    \* type, shape
    [] impl = "windows" ->
         Call("session") \o Call("session") \o Call("session")   \* hasSession, names
           \o Call("tensor") \o Call("tensor")                    \* getTensor, cloneTensor
           \o EngineRun
           \o GenerateEvents \o Call("tensor")                    \* storeTensor
           \o Call("tensor") \o Call("tensor")                    \* type, shape
    [] OTHER ->
         <<GetEv("session"), GetEv("tensor"), UseEv("tensor")>>
           \o EngineRun \o Bare("tensor")

\* The events of handler op.  The create<T>Tensor and convertTensor methods
\* call generateTensorId with their mutex locked; the linux convert_ort_value
\* calls it under the plugin mutex only; the legacy code has no mutex.
Program(op) ==
  IF impl = "legacy"
  THEN CASE op = "runInference" -> RunProgram
         [] op = "createSession" -> Bare("session")
         [] op = "closeSession" -> <<EraseEv("session")>>
         [] op = "releaseOrtValue" -> <<EraseEv("tensor")>>
         [] OTHER -> Bare("tensor")
  ELSE CASE op = "runInference" -> RunProgram
         [] op = "createSession" ->
              Call("session") \o Call("session") \o Call("session")
         [] op = "closeSession" -> EraseLocked("session")
         [] op = "releaseOrtValue" -> EraseLocked("tensor")
         [] op = "convertOrtValue" ->
              IF impl = "linux"
              THEN <<LockEv("plugin")>> \o GenerateEvents \o <<UnlockEv("plugin")>>
              ELSE <<LockEv("tensor")>> \o GenerateEvents
                     \o <<AccessEv("tensor"), UnlockEv("tensor")>>
                     \o Call("tensor")
         [] op = "createOrtValue" ->
              <<LockEv("tensor")>> \o GenerateEvents
                \o <<AccessEv("tensor"), UnlockEv("tensor")>>
         [] op = "getOrtValueData" ->
              IF impl = "windows" THEN Call("tensor") \o Call("tensor")
              ELSE Call("tensor")
         [] OTHER -> Call("tensor")

\* What the lock-level steps leave alone.
dataVars == <<impl, tensors_, tensor_types_, tensor_shapes_,
              tensor_data_buffers_, next_tensor_id_, sessionVars, resp,
              histVars, pc, loc, calc>>

\* A caller thread enters a handler.
Begin(t) ==
  /\ prog[t] = <<>>
  /\ \E op \in Handlers : prog' = [prog EXCEPT ![t] = Program(op)]
  /\ UNCHANGED <<held, dataVars>>

\* std::lock_guard constructor: blocks while any thread has the mutex.
Lock(t) ==
  /\ prog[t] # <<>>
  /\ Head(prog[t]).kind = "lock"
  /\ \A u \in Threads : Head(prog[t]).what \notin held[u]
  /\ held' = [held EXCEPT ![t] = @ \cup {Head(prog[t]).what}]
  /\ prog' = [prog EXCEPT ![t] = Tail(@)]
  /\ UNCHANGED dataVars

\* std::lock_guard destructor.
Unlock(t) ==
  /\ prog[t] # <<>>
  /\ Head(prog[t]).kind = "unlock"
  /\ held' = [held EXCEPT ![t] = @ \ {Head(prog[t]).what}]
  /\ prog' = [prog EXCEPT ![t] = Tail(@)]
  /\ UNCHANGED dataVars

\* The thread touches a structure, dereferences a pointer or runs the
\* engine.
Touch(t) ==
  /\ prog[t] # <<>>
  /\ Head(prog[t]).kind \in {"access", "get", "erase", "use", "run"}
  /\ prog' = [prog EXCEPT ![t] = Tail(@)]
  /\ UNCHANGED <<held, dataVars>>

\* The lock_guard destructors that stack unwinding runs for the mutexes in h.
Unwind(h) ==
  (IF "tensor" \in h THEN <<UnlockEv("tensor")>> ELSE <<>>)
    \o (IF "session" \in h THEN <<UnlockEv("session")>> ELSE <<>>)
    \o (IF "plugin" \in h THEN <<UnlockEv("plugin")>> ELSE <<>>)

\* The statement the thread is at throws (a missing identifier, an
\* Ort::Exception): the rest of the handler is skipped, the lock_guards in
\* scope are destroyed and the handler answers with the error.
Throw(t) ==
  /\ prog[t] # <<>>
  /\ Head(prog[t]).kind \in {"access", "get", "erase", "run"}
  /\ prog' = [prog EXCEPT ![t] = Unwind(held[t])]
  /\ UNCHANGED <<held, dataVars>>

NextLocks ==
  \/ \E t \in Threads : Begin(t)
  \/ \E t \in Threads : Lock(t)
  \/ \E t \in Threads : Unlock(t)
  \/ \E t \in Threads : Touch(t)
  \/ \E t \in Threads : Throw(t)

SpecLocks == Init /\ [][NextLocks]_vars

\* Fair scheduling: a thread that can go on does, a mutex that is free
\* again and again is eventually given to a thread that waits for it, and
\* the engine returns from a run.
SpecLocksFair ==
  /\ SpecLocks
  /\ \A t \in Threads :
        /\ SF_vars(Lock(t))
        /\ WF_vars(Unlock(t))
        /\ WF_vars(Touch(t) \/ Throw(t))

\* ------------------------------------------- concurrent release and close
\* TensorManager::releaseTensor and SessionManager::closeSession of the
\* linux/src and windows implementations, called by several threads at
\* once and taken one statement at a time: the lock_guard, the find, the
\* erase, the return.  The locals of a call are what (the registry), id (the
\* identifier asked for), found (the iterator is not end()), ret (the
\* value returned) and live (history: the entry existed when the call
\* began).

\* The entries of registry what.
Entries(what) == IF what = "tensor" THEN DOMAIN tensors_ ELSE DOMAIN sessions_

\* Mutation of MutexFree: the lock_guard never waits.
MutexAlwaysFree(m) == TRUE

\* std::lock_guard can take mutex m: no thread has it locked.
MutexFree(m) == \A u \in Threads : m \notin held[u]

\* What the steps of a release or close leave alone.
releaseFrame == <<impl, next_tensor_id_, next_session_id_, minted, prog, calc>>

\* The threads other than t inside a release or close of entry id.
InFlight(t, what, id) ==
  {u \in Threads \ {t} : /\ pc[u] \notin {"idle", "returned"}
                         /\ loc[u].what = what
                         /\ loc[u].id = id}

\* A count of overlapping calls: none, one, or more than one.
UpToTwo(n) == IF n < 2 THEN n ELSE 2

\* A caller thread enters releaseOrtValue or closeSession.  The history
\* field live records that the entry existed then, and rivals counts the
\* other calls on the same entry that overlap with this one.
ReleaseBegin(t) ==
  /\ Managed
  /\ pc[t] = "idle"
  /\ \E what \in {"tensor", "session"}, id \in SessionArgs :
       loc' = [u \in Threads |->
                 IF u = t
                 THEN [NoLocals EXCEPT !.what = what, !.id = id,
                                       !.live = id \in Entries(what),
                                       !.rivals = UpToTwo(Cardinality(InFlight(t, what, id)))]
                 ELSE IF u \in InFlight(t, what, id)
                      THEN [loc[u] EXCEPT !.rivals = UpToTwo(@ + 1)]
                      ELSE loc[u]]
  /\ pc' = [pc EXCEPT ![t] = "lock"]
  /\ UNCHANGED <<tensors_, tensor_types_, tensor_shapes_, tensor_data_buffers_,
                 sessions_, released, resp, held, releaseFrame>>

\* std::lock_guard<std::mutex> lock(mutex_).
ReleaseLock(t) ==
  /\ pc[t] = "lock"
  /\ MutexFree(loc[t].what)
  /\ held' = [held EXCEPT ![t] = @ \cup {loc[t].what}]
  /\ pc' = [pc EXCEPT ![t] = "find"]
  /\ UNCHANGED <<tensors_, tensor_types_, tensor_shapes_, tensor_data_buffers_,
                 sessions_, released, resp, loc, releaseFrame>>

\* The find calls and the comparison with end().
ReleaseFind(t) ==
  /\ pc[t] = "find"
  /\ loc' = [loc EXCEPT ![t].found = loc[t].id \in Entries(loc[t].what)]
  /\ pc' = [pc EXCEPT ![t] = IF loc[t].id \in Entries(loc[t].what)
                             THEN "erase" ELSE "unlock"]
  /\ UNCHANGED <<tensors_, tensor_types_, tensor_shapes_, tensor_data_buffers_,
                 sessions_, released, resp, held, releaseFrame>>

\* The erase calls and return true.
ReleaseErase(t) ==
  /\ pc[t] = "erase"
  /\ IF loc[t].what = "tensor"
     THEN /\ tensors_' = Erase(tensors_, loc[t].id)
          /\ tensor_types_' = Erase(tensor_types_, loc[t].id)
          /\ tensor_shapes_' = Erase(tensor_shapes_, loc[t].id)
          /\ tensor_data_buffers_' = Erase(tensor_data_buffers_, loc[t].id)
          /\ released' = released \cup {loc[t].id}
          /\ UNCHANGED sessions_
     ELSE /\ sessions_' = Erase(sessions_, loc[t].id)
          /\ UNCHANGED <<tensors_, tensor_types_, tensor_shapes_,
                         tensor_data_buffers_, released>>
  /\ loc' = [loc EXCEPT ![t].ret = TRUE]
  /\ pc' = [pc EXCEPT ![t] = "unlock"]
  /\ UNCHANGED <<resp, held, releaseFrame>>

\* The lock_guard goes out of scope and the handler answers.
ReleaseReturn(t) ==
  /\ pc[t] = "unlock"
  /\ held' = [held EXCEPT ![t] = @ \ {loc[t].what}]
  /\ resp' = [(IF loc[t].what = "tensor" THEN ReleaseResponse(loc[t].ret)
               ELSE CloseResponse(loc[t].ret)) EXCEPT !.valueId = loc[t].id]
  /\ pc' = [pc EXCEPT ![t] = "returned"]
  /\ UNCHANGED <<tensors_, tensor_types_, tensor_shapes_, tensor_data_buffers_,
                 sessions_, released, loc, releaseFrame>>

\* The caller has taken the answer.
ReleaseEnd(t) ==
  /\ pc[t] = "returned"
  /\ pc' = [pc EXCEPT ![t] = "idle"]
  /\ loc' = [loc EXCEPT ![t] = NoLocals]
  /\ UNCHANGED <<tensors_, tensor_types_, tensor_shapes_, tensor_data_buffers_,
                 sessions_, released, resp, held, releaseFrame>>

\* No release or close is in flight.
Quiet == \A t \in Threads : pc[t] = "idle"

\* The tensors and the session the concurrent callers then release and
\* close are created while no release or close is in flight.
CreateQuiet == Managed /\ Quiet /\ CreateOrtValue(InputRequests)
OpenQuiet == Managed /\ Quiet /\ CreateSession

NextRelease ==
  \/ CreateQuiet
  \/ OpenQuiet
  \/ \E t \in Threads : ReleaseBegin(t)
  \/ \E t \in Threads : ReleaseLock(t)
  \/ \E t \in Threads : ReleaseFind(t)
  \/ \E t \in Threads : ReleaseErase(t)
  \/ \E t \in Threads : ReleaseReturn(t)
  \/ \E t \in Threads : ReleaseEnd(t)

SpecRelease == Init /\ [][NextRelease]_vars

\* ------------------------------------------------------------------ claims
\* The step is the handler op answering.
Answers(op) == resp'.op = op

\* The payload of a request matches its shape.
Matching(req) == Len(req.data) = Product(req.shape)

\* getOrtValueData of h can only answer with the type, shape and payload of
\* the request req.
ReadsBack(h, req) ==
  \A r \in GetResponses(h) :
     /\ r.status = "success"
     /\ r.dataType = req.sourceType
     /\ r.shape = req.shape
     /\ Values(r.data) = req.data

\* The step releases the handle h.
Releases(h) ==
  /\ Answers("releaseOrtValue")
  /\ resp'.valueId = h
  /\ h \in DOMAIN tensors_
  /\ h \notin DOMAIN tensors_'

\* C1: for each of the five element types and every request whose payload
\* matches its shape, the handle a successful createOrtValue returns reads
\* back (getTensorData) with the type, shape and payload of the request,
\* from the step that created it up to the step that releases it.
C1_CreateThenGet ==
  [][Managed =>
       \A h \in HandleArgs, req \in {q \in CreateRequests : Matching(q)} :
          /\ (Answers("createOrtValue") /\ resp'.status = "success"
                /\ resp'.valueId = h /\ resp'.req = req)
               => ReadsBack(h, req)'
          /\ (ReadsBack(h, req) /\ ~Releases(h)) => ReadsBack(h, req)']_vars

\* C7: a createOrtValue whose payload length differs from the product of the
\* shape is answered with an error and leaves the three registry maps as
\* they were.
C7_MismatchRejected ==
  [][(Answers("createOrtValue") /\ ~Matching(resp'.req))
       => /\ resp'.status = "error"
          /\ UNCHANGED <<tensors_, tensor_types_, tensor_shapes_>>]_vars

\* Every way of looking h up reports it as missing: getTensor, getTensorData
\* (through the handler), releaseTensor, and the input loop of runInference.
NotFound(h) ==
  /\ ~GetTensorFound(h)
  /\ \A r \in GetResponses(h) : r.status # "success" \/ r.code = "null"
  /\ ~ReleaseTensorReturns(h)
  /\ \A name \in {InputNames[k] : k \in 1..Len(InputNames)} :
        CloneInputs(<<[name |-> name, handle |-> h]>>) = {<<>>}

\* C2: once releaseTensor(h) has returned true, h is reported as not found
\* by every later lookup and a further releaseTensor(h) returns false,
\* whatever other operations ran in between.
C2_ReleasedStaysGone ==
  Managed => \A h \in released : NotFound(h)

\* C5: the identifier a response hands out for a new tensor was never handed
\* out before, and a new session identifier is the counter value, above
\* every session identifier handed out before.
C5_FreshIdentifiers ==
  [][/\ resp'.minted \cap minted = {}
     /\ (Answers("createSession") /\ resp'.status = "success")
          => /\ resp'.valueId >= next_session_id_
             /\ next_session_id_' > resp'.valueId]_vars

\* The step is a runInference answering a call on an existing session.
Ran == Answers("runInference") /\ resp'.code # "INVALID_SESSION"
                               /\ resp'.message # "Session not found"

\* The handles of the tensors a run handed to the engine.
FedHandles(r) == {r.fed[k].handle : k \in 1..Len(r.fed)}

\* C3: runInference clones its inputs and never moves them: after a call,
\* successful or failed, every handle whose tensor went to the engine still
\* resolves and reads back with the same type, shape and payload as before.
C3_InputsKept ==
  [][(impl \in {"linux", "legacy"} /\ Ran) =>
       \A h \in FedHandles(resp') :
          /\ GetTensorFound(h)'
          /\ GetResponses(h)' = GetResponses(h)]_vars

\* Storing or describing some output of the response r failed.
OutputFailed(r) ==
  r.engine = "returned" /\ \E i \in 1..Len(r.got) : r.got[i].kind # "tensor"

\* C8: runInference is all-or-nothing: when the engine call threw, or storing
\* or describing an output failed, the caller gets an error with the failure
\* message and no output entry; a success response has one entry, under the
\* declared name, for every output the engine returned.
C8_AllOrNothing ==
  (Managed /\ resp.op = "runInference") =>
     /\ (resp.engine = "threw" \/ OutputFailed(resp))
          => (resp.status = "error" /\ resp.message # "" /\ resp.outputs = <<>>)
     /\ resp.status = "error" => resp.outputs = <<>>
     /\ resp.status = "success"
          => /\ Len(resp.outputs) = Len(resp.got)
             /\ \A i \in 1..Len(resp.got) : resp.outputs[i].name = OutputNames[i]

\* C8 witness: the engine returned its outputs, describing one of them
\* failed, and the caller got the error.
C8_Witness_FailedOutput ==
  /\ Managed /\ resp.op = "runInference"
  /\ OutputFailed(resp) /\ resp.got[1].kind = "tensor"
  /\ resp.status = "error" /\ resp.outputs = <<>>

\* C9: on a successful runInference with k engine outputs, entry i carries
\* the i-th declared output name and a handle that was not live before the
\* call, the k handles are pairwise distinct, and each resolves to the i-th
\* engine output with its element type and shape.
C9_OutputsPaired ==
  [][(Managed /\ Ran /\ resp'.status = "success") =>
       /\ Len(resp'.outputs) = Len(resp'.got)
       /\ \A i \in 1..Len(resp'.outputs) :
            LET e == resp'.outputs[i]
            IN /\ e.name = OutputNames[i]
               /\ e.valueId \notin DOMAIN tensors_
               /\ \A j \in 1..Len(resp'.outputs) :
                     resp'.outputs[j].valueId = e.valueId => j = i
               /\ e.valueId \in DOMAIN tensors_'
               /\ tensors_'[e.valueId] = resp'.got[i]
               /\ e.dataType = resp'.got[i].etype
               /\ e.shape = resp'.got[i].shape]_vars

\* C10: a runInference whose inputs map names a handle that is not in the
\* registry is answered, and not with the failure of that lookup: the input
\* is skipped.
C10_UnresolvedSkipped ==
  [][(Ran /\ resp'.unresolved > 0) =>
       /\ resp'.status # "none"
       /\ resp'.code # "INVALID_ORT_VALUE"]_vars

\* Thread t takes the step from label a to label b.
Moves(t, a, b) == pc[t] = a /\ pc'[t] = b

\* C4: concurrent runInference calls on one session and one input handle:
\* each hands the engine a copy of the registered payload, and each success
\* response holds handles that resolve to the outputs of its own engine call.
C4_NoCrossTalk ==
  [][\A t \in Threads :
       /\ Moves(t, "idle", "generate") =>
            \A k \in 1..Len(loc'[t].fed) :
               LET f == loc'[t].fed[k]
               IN /\ f.value.storage = "own"
                  /\ f.value.elems \in ReadOutcomes(tensors_[f.handle])
       /\ (Moves(t, "describe", "idle") /\ resp'.status = "success") =>
            \A i \in 1..Len(resp'.outputs) :
               LET h == resp'.outputs[i].valueId
               IN /\ h \in DOMAIN tensors_'
                  /\ tensors_'[h] = EngineOutput(t, i)]_vars

\* C6: under concurrent callers every identifier generateTensorId returns is
\* new, and storeTensor never writes over the entry of a live handle.
C6_CollisionFree ==
  [][\A t \in Threads :
       /\ (pc[t] = "generate" /\ pc'[t] # "generate") => loc'[t].id \notin minted
       /\ (pc[t] = "store" /\ pc'[t] # "store")
            => loc[t].id \notin DOMAIN tensors_]_vars

\* The implementations whose convertOrtValue converts (linux/src answers
\* with a placeholder).
Converting == impl \in {"windows", "legacy"}

\* The element type the registry records for the tensor h.
TypeOf(h) == IF impl = "windows" THEN tensor_types_[h] ELSE tensors_[h].etype

\* The step is a successful convertOrtValue of the registered tensor h to
\* the type target.
Converts(h, target) ==
  /\ Answers("convertOrtValue")
  /\ resp'.status = "success"
  /\ resp'.source = h
  /\ resp'.target = target
  /\ h \in DOMAIN tensors_

\* C11: converting a tensor h to its own element type answers with a handle
\* h2 # h; afterwards both are registered, h2 has the type, shape and
\* payload of h over storage of its own, and releasing either of two
\* registered handles leaves what the other reads back unchanged.
C11_SameTypeCopy ==
  [][Converting =>
       \A h \in HandleArgs :
          /\ \A t \in TargetTypes :
               (Converts(h, t) /\ TypeOf(h) = t)
                 => /\ resp'.valueId # h
                    /\ {h, resp'.valueId} \subseteq DOMAIN tensors_'
                    /\ tensors_'[resp'.valueId].storage \in {"own", "buffer"}
                    /\ \A k \in HandleArgs :
                         k = resp'.valueId => GetResponses(k)' = GetResponses(h)
          /\ Releases(h)
               => \A k \in DOMAIN tensors_ \ {h} :
                     GetResponses(k)' = GetResponses(k)]_vars

\* C12: a convertOrtValue of a registered tensor h, answered with success or
\* not, leaves h registered and reading back as before; a successful one
\* adds exactly one entry to the registry, under the identifier it answers
\* with and with the shape of h, and changes no entry that was there.
C12_SourceKept ==
  [][Converting =>
       \A h \in HandleArgs :
          (Answers("convertOrtValue") /\ resp'.source = h /\ h \in DOMAIN tensors_)
            => /\ h \in DOMAIN tensors_'
               /\ GetResponses(h)' = GetResponses(h)
               /\ resp'.status = "success"
                    => /\ resp'.valueId \notin DOMAIN tensors_
                       /\ DOMAIN tensors_' = DOMAIN tensors_ \cup {resp'.valueId}
                       /\ tensors_'[resp'.valueId].shape = tensors_[h].shape
                       /\ \A k \in DOMAIN tensors_ :
                            GetResponses(k)' = GetResponses(k)]_vars

\* The implementation converts a tensor of type src to type dst: windows
\* convert<S>To has a branch for each of the five types, legacy
\* ort_convert_tensor for the source type itself and for LegacyRules.
HasRule(src, dst) ==
  IF impl = "windows" THEN dst \in CreatableTypes
  ELSE (src = dst /\ dst \in LegacyTargets) \/ <<src, dst>> \in LegacyRules

\* convertTensor finds h and it is a tensor.
Convertible(h) ==
  /\ IF impl = "windows" THEN GetTensorDataFound(h) ELSE GetTensorFound(h)
  /\ tensors_[h].kind = "tensor"

\* C13: a convertOrtValue of a tensor to a type its type has no conversion
\* rule for is answered with an error whose message names both the source
\* type and the target type, and leaves the registry maps as they were.
C13_UnsupportedNamed ==
  [][Converting =>
       \A h \in HandleArgs, t \in TargetTypes :
          (/\ Answers("convertOrtValue")
           /\ resp'.source = h
           /\ resp'.target = t
           /\ Convertible(h)
           /\ ~HasRule(TypeOf(h), t))
            => /\ resp'.status = "error"
               /\ {TypeOf(h), t} \subseteq resp'.named
               /\ UNCHANGED <<tensors_, tensor_types_, tensor_shapes_>>]_vars

\* The entry of h keeps the payload of the request req in memory that stays
\* allocated: every read of the tensor yields that payload.
Owned(h, req) ==
  /\ h \in DOMAIN tensors_
  /\ tensors_[h].kind = "tensor"
  /\ tensors_[h].storage # "freed"
  /\ \A r \in ReadOutcomes(tensors_[h]) : r = req.data

\* The implementations that take identifiers from a counter.
Counted == impl \in {"linux", "legacy"}

\* C14: for the implementations with a counter for identifiers, the handle a
\* successful createOrtValue returns refers to memory that holds the
\* payload of the request and stays allocated, from the step that created it
\* up to the step that releases it, whatever happens to the memory the
\* payload arrived in.
C14_PrivateCopy ==
  [][Counted =>
       \A h \in HandleArgs, req \in {q \in CreateRequests : Matching(q)} :
          /\ (Answers("createOrtValue") /\ resp'.status = "success"
                /\ resp'.valueId = h /\ resp'.req = req)
               => Owned(h, req)'
          /\ (Owned(h, req) /\ ~Releases(h)) => Owned(h, req)']_vars

\* C15: releaseOrtValue and closeSession are never answered with an error:
\* for a handle that is not registered the registry call returns false and
\* the handler does not turn that into an error response.
C15_AbsenceIsNotAnError ==
  [][(Answers("releaseOrtValue") \/ Answers("closeSession"))
       => resp'.status # "error"]_vars

\* C16: closeSession(s) returns true exactly when s is registered, and s is
\* not registered afterwards; an identifier the counter has passed and that
\* is not registered is never registered again, so hasSession(s) stays false
\* and a later closeSession(s) returns false; runInference on a session
\* that is not registered answers that the session was not found and does
\* not call the engine.
C16_ClosedStaysClosed ==
  [][Managed =>
       \A s \in SessionArgs :
          /\ (Answers("closeSession") /\ resp'.valueId = s)
               => /\ resp'.code = (IF HasSession(s) THEN "true" ELSE "false")
                  /\ ~HasSession(s)'
                  /\ ~CloseSessionReturns(s)'
          /\ (~HasSession(s) /\ s < next_session_id_) => ~HasSession(s)'
          /\ (Answers("runInference") /\ resp'.session = s /\ ~HasSession(s))
               => /\ resp'.status = "error"
                  /\ resp'.message = "Session not found"
                  /\ resp'.engine = "none"]_vars

\* A registered session has been closed: closeSession returned true and the
\* session is gone.
C16_Witness_Closed ==
  /\ Managed
  /\ resp.op = "closeSession"
  /\ resp.code = "true"
  /\ resp.valueId < next_session_id_
  /\ ~HasSession(resp.valueId)

\* C17: a createSession whose model the engine cannot load is answered with
\* an error that carries the message of the engine's exception, and adds no
\* session to the registry.
C17_LoadErrorPassedThrough ==
  [][Managed =>
       \A path \in ModelPaths :
          (Answers("createSession") /\ resp'.model = path /\ ~Loads(path))
            => /\ resp'.status = "error"
               /\ resp'.message = EngineMessage(path)
               /\ sessions_' = sessions_]_vars

\* C18: getInputNames and getOutputNames of a session identifier that is not
\* registered fail with an error instead of returning normally.
C18_UnknownSessionNames ==
  [][Managed =>
       \A s \in SessionArgs :
          ((Answers("getInputNames") \/ Answers("getOutputNames"))
             /\ resp'.session = s /\ ~HasSession(s))
            => resp'.status = "error"]_vars

\* The thread t is about to touch the structure x or to run the engine.
Touching(t, x) == prog[t] # <<>> /\ Head(prog[t]).what = x
                    /\ Head(prog[t]).kind \in {"access", "get", "erase", "run"}

\* C19: no thread has the tensor mutex and the session mutex locked at the
\* same time.
C19_NeverBothLocks ==
  \A t \in Threads : ~({"tensor", "session"} \subseteq held[t])

\* One thread is inside the engine call with the session mutex locked while
\* another has the tensor mutex locked.
C19_Witness_BothInUse ==
  \E t, u \in Threads :
     /\ t # u
     /\ Touching(t, "engine")
     /\ held[t] = {"session"}
     /\ held[u] = {"tensor"}

\* C20: whenever a thread reads or writes the tensor maps or the tensor
\* identifier counter it has the tensor mutex locked, and whenever it reads
\* or writes the session map it has the session mutex locked.
C20_AccessUnderLock ==
  \A t \in Threads :
     \A x \in {"tensor", "session"} :
        (Touching(t, x) /\ Head(prog[t]).kind # "run") => x \in held[t]

\* The integer nearest to the float32 x, a tie going to the one farther
\* from zero.
RoundHalfAway(x) ==
  IF x.e >= 0 THEN x.m * Pow2(x.e)
  ELSE LET q == Abs(x.m) \div Pow2(-x.e)
           r == Abs(x.m) % Pow2(-x.e)
       IN Sgn(x.m) * (IF 2 * r >= Pow2(-x.e) THEN q + 1 ELSE q)

\* C21: an element of a float32 tensor converted to int32 or int64 is the
\* integer nearest to it, ties away from zero, without clamping.
C21_RoundsHalfAway ==
  (calc.done /\ calc.src = "float32" /\ calc.dst \in {"int32", "int64"})
    => calc.y = RoundHalfAway(calc.x)

\* The int64 x saturated to lo..hi (bounds in the int32 range).
Saturated(x, lo, hi) ==
  IF Int64Above(x, hi) THEN hi ELSE IF Int64Below(x, lo) THEN lo ELSE x.r

\* C22: an int64 element converted to int32 is saturated to
\* INT32_MIN..INT32_MAX and one converted to uint8 to 0..255; nothing wraps.
C22_Int64Saturates ==
  (calc.done /\ calc.src = "int64")
    => /\ calc.dst = "int32" => calc.y = Saturated(calc.x, Int32Min, Int32Max)
       /\ calc.dst = "uint8" => calc.y = Saturated(calc.x, 0, 255)

\* y is an integer nearest to the float32 x >= 0 (either neighbour on a tie).
NearestTo(x, y) ==
  IF x.e >= 0 THEN y = x.m * Pow2(x.e)
  ELSE LET q == x.m \div Pow2(-x.e)
           r == x.m % Pow2(-x.e)
       IN \/ y = q /\ 2 * r <= Pow2(-x.e)
          \/ y = q + 1 /\ 2 * r >= Pow2(-x.e)

\* C23: a float32 element converted to uint8 lands in 0..255: 0 for an
\* input at or below 0, 255 for an input at or above 255, and the nearest
\* integer for an input in between.
C23_ClampThenRound ==
  (calc.done /\ calc.src = "float32" /\ calc.dst = "uint8")
    => /\ calc.y \in 0..255
       /\ calc.x.m <= 0 => calc.y = 0
       /\ (Float32Above(calc.x, 255) \/ calc.x = F(255, 0)) => calc.y = 255
       /\ (calc.x.m > 0 /\ ~Float32Above(calc.x, 254))
            => NearestTo(calc.x, calc.y)

\* C24: a convertOrtValue between float32 and float16, in either direction,
\* is answered with success and the identifier of a tensor that was not
\* registered before and now is, with the target type; any other conversion
\* from or to float16 (to a different type) is answered with an error and
\* registers nothing.
C24_Float16Pairs ==
  [][Converting =>
       \A h \in HandleArgs, t \in TargetTypes :
          (/\ Answers("convertOrtValue")
           /\ resp'.source = h
           /\ resp'.target = t
           /\ Convertible(h)
           /\ TypeOf(h) # t
           /\ "float16" \in {TypeOf(h), t})
            => IF {TypeOf(h), t} = {"float32", "float16"}
               THEN /\ resp'.status = "success"
                    /\ resp'.valueId \notin DOMAIN tensors_
                    /\ resp'.valueId \in DOMAIN tensors_'
                    /\ tensors_'[resp'.valueId].etype = t
                    /\ resp'.dataType = t
               ELSE /\ resp'.status = "error"
                    /\ resp'.code = "CONVERSION_ERROR"
                    /\ UNCHANGED <<tensors_, tensor_types_, tensor_shapes_>>]_vars

\* The float32 pattern b encodes a value in the normal float16 range:
\* magnitude from 2^-14 up to 65504.
InHalfRange(b) ==
  /\ b.e - FLOAT32_EXPONENT_BIAS + FLOAT16_EXPONENT_BIAS \in 1..30
  /\ b.e - FLOAT32_EXPONENT_BIAS + FLOAT16_EXPONENT_BIAS = 30
       => b.m <= 1023 * Pow2(13)

\* The float16 pattern nearest to the value of b, ties to the even
\* mantissa, for b in the normal float16 range.
NearestHalf(b) ==
  LET kept == (b.e - FLOAT32_EXPONENT_BIAS + FLOAT16_EXPONENT_BIAS) * Pow2(10)
                + b.m \div Pow2(13)
      rest == b.m % Pow2(13)
      up == rest > Pow2(12) \/ (rest = Pow2(12) /\ kept % 2 = 1)
  IN b.s * Pow2(15) + (IF up THEN kept + 1 ELSE kept)

\* C25: floatToFloat16 of a float32 in the normal float16 range is the
\* float16 pattern nearest to it, ties to even; float16ToFloat of a normal
\* float16 pattern is the float32 of the same sign with exactly its value
\* (1024 + mantissa) * 2^(exponent - 25).
C25_NearestEven ==
  /\ (calc.done /\ calc.src = "float32 bits" /\ InHalfRange(calc.x))
       => calc.y = NearestHalf(calc.x)
  /\ (calc.done /\ calc.src = "float16"
        /\ (calc.x % FLOAT16_SIGN_MASK) \div 1024 \in 1..30)
       => /\ calc.y.s = calc.x \div FLOAT16_SIGN_MASK
          /\ Float32Value(calc.y) =
               F((IF calc.x >= FLOAT16_SIGN_MASK THEN -1 ELSE 1)
                   * (1024 + (calc.x % 1024)) * Pow2(13),
                 (calc.x % FLOAT16_SIGN_MASK) \div 1024 - 25 - 13)

\* C26: an int32 element of magnitude up to 2^24 converted to float32 and
\* the result converted to int32 is the element again.
C26_Int32RoundTrip ==
  (/\ calc.done
   /\ calc.via = "int32"
   /\ calc.dst = "int32"
   /\ Abs(calc.x0) <= Pow2(24))
    => calc.y = calc.x0

\* C27: a thread that is about to run the engine, or is running it, has no
\* registry mutex locked, so no other thread waits for a registry mutex
\* until an inference ends.
C27_NoLockAcrossRun ==
  \A t \in Threads :
     (prog[t] # <<>> /\ Head(prog[t]).kind = "run")
       => /\ held[t] \cap {"tensor", "session"} = {}
          /\ \A u \in Threads \ {t} :
               (prog[u] # <<>> /\ Head(prog[u]).kind = "lock")
                 => Head(prog[u]).what \notin held[t]

\* The thread t keeps a raw pointer into the registry x that it has still
\* to dereference.
Outstanding(t, x) ==
  /\ \E i \in 1..Len(prog[t]) : prog[t][i] = UseEv(x)
  /\ \A i \in 1..Len(prog[t]) : prog[t][i] # GetEv(x)

\* C28: when a releaseOrtValue or closeSession erases an entry, no other
\* in-flight call that named the same handle keeps a pointer to the erased
\* object that it goes on to dereference.
C28_NoUseAfterErase ==
  [][\A t, u \in Threads :
       \A x \in {"tensor", "session"} :
          (/\ t # u
           /\ prog[u] # <<>>
           /\ Head(prog[u]) = EraseEv(x)
           /\ prog'[u] = Tail(prog[u]))
            => ~Outstanding(t, x)]_vars

\* C29: in every engine call of a runInference, the k-th tensor handed to
\* the engine travels under the name of the inputs-map entry that supplied
\* its handle.
C29_InputsPaired ==
  [][Ran =>
       \A k \in 1..Len(resp'.fed) :
          resp'.fed[k].engineName = resp'.fed[k].name]_vars

\* C30: a runInference on a registered session calls the engine, once,
\* before it responds, also when no entry of the inputs map resolves to a
\* registered tensor; what it hands over is a clone of each resolved input.
C30_EngineAlwaysRun ==
  [][(Ran /\ resp'.session \in DOMAIN sessions_) =>
       /\ resp'.engine \in {"returned", "threw"}
       /\ \A k \in 1..Len(resp'.fed) :
            /\ resp'.fed[k].handle \in DOMAIN tensors_
            /\ resp'.fed[k].value.storage = "own"]_vars

\* C31: the tensor map, the type map and the shape map of a TensorManager
\* have the same handles, and on windows every handle of the buffer map is
\* a handle of the tensor map.
C31_MapsAgree ==
  Managed =>
    /\ DOMAIN tensor_types_ = DOMAIN tensors_
    /\ DOMAIN tensor_shapes_ = DOMAIN tensors_
    /\ impl = "windows" => DOMAIN tensor_data_buffers_ \subseteq DOMAIN tensors_

\* C32: every handle a success response has handed to the caller and that
\* was never released is in the tensor registry, and getOrtValueData on it
\* can only succeed.
C32_HandlesResolve ==
  \A h \in minted \ released :
     /\ GetTensorFound(h)
     /\ \A r \in GetResponses(h) : r.status = "success"

\* C33: a runInference that is answered with an error leaves the tensor
\* registry as it was before the call.
C33_FailedRunKeepsRegistry ==
  [][(Answers("runInference") /\ resp'.status = "error")
       => UNCHANGED <<tensors_, tensor_types_, tensor_shapes_,
                      tensor_data_buffers_>>]_vars

\* C34: of two calls that release the same tensor, or close the same
\* session, that both began while the entry existed and overlap with no
\* third call on it, exactly one returns true; of any number of such calls
\* no two return true; an erase is only ever applied to an entry that
\* exists.
C34_OneReleaseWins ==
  [][Managed =>
       /\ \A t, u \in Threads :
            (/\ t # u
             /\ pc'[t] = "returned" /\ pc'[u] = "returned"
             /\ loc'[t].what = loc'[u].what /\ loc'[t].id = loc'[u].id
             /\ loc'[t].live /\ loc'[u].live)
              => /\ ~(loc'[t].ret /\ loc'[u].ret)
                 /\ (loc'[t].rivals = 1 /\ loc'[u].rivals = 1)
                      => loc'[t].ret # loc'[u].ret
       /\ \A t \in Threads :
            (pc[t] = "erase" /\ pc'[t] = "unlock")
              => loc[t].id \in Entries(loc[t].what)]_vars

\* C34 witness: two calls on the same entry, both begun while it existed,
\* have both returned, one of them with true.
C34_Witness_BothReturned ==
  \E t, u \in Threads :
     /\ t # u
     /\ pc[t] = "returned" /\ pc[u] = "returned"
     /\ loc[t].what = loc[u].what /\ loc[t].id = loc[u].id
     /\ loc[t].live /\ loc[u].live
     /\ loc[t].ret

\* C35: a thread about to lock a mutex has no registry mutex locked (not
\* that one, not the other one), and every handler a thread has started
\* comes to its end with none of its mutexes locked.
C35_NoDeadlock ==
  /\ [](\A t \in Threads :
          (prog[t] # <<>> /\ Head(prog[t]).kind = "lock")
            => /\ Head(prog[t]).what \notin held[t]
               /\ held[t] \cap {"tensor", "session"} = {})
  /\ \A t \in Threads :
       (prog[t] # <<>>) ~> (prog[t] = <<>> /\ held[t] = {})

\* C35 witness: a thread waits for a registry mutex that another thread has
\* locked.
C35_Witness_Waiting ==
  \E t, u \in Threads :
     /\ t # u
     /\ prog[t] # <<>>
     /\ Head(prog[t]).kind = "lock"
     /\ Head(prog[t]).what \in {"tensor", "session"}
     /\ Head(prog[t]).what \in held[u]

\* C36: floatToFloat16 gives the float16 infinity of the same sign for every
\* finite float32 whose rebiased exponent is 31 or more, the float16 zero of
\* the same sign for every float32 whose rebiased exponent is 0 or less, and
\* a float16 NaN only for a float32 NaN.
C36_OverflowToInfinity ==
  (calc.done /\ calc.src = "float32 bits" /\ calc.dst = "float16") =>
    LET rebiased == calc.x.e - FLOAT32_EXPONENT_BIAS + FLOAT16_EXPONENT_BIAS
    IN /\ (calc.x.e < 255 /\ rebiased >= 31)
            => calc.y = calc.x.s * FLOAT16_SIGN_MASK + FLOAT16_EXPONENT_MASK
       /\ rebiased <= 0 => calc.y = calc.x.s * FLOAT16_SIGN_MASK
       /\ (calc.y % FLOAT16_SIGN_MASK > FLOAT16_EXPONENT_MASK)
            => (calc.x.e = 255 /\ calc.x.m # 0)

\* C37: for a float16 with exponent field 0 and mantissa m # 0,
\* float16ToFloat returns the float32 of the same sign and of value
\* m * 2^-24: its significand is m shifted left until bit 23 is set and its
\* exponent field is the one that goes with that shift.
C37_DenormalExact ==
  (/\ calc.done /\ calc.src = "float16" /\ calc.dst = "float32 bits"
   /\ (calc.x % FLOAT16_SIGN_MASK) \div Pow2(10) = 0
   /\ calc.x % Pow2(10) # 0) =>
    LET m == calc.x % Pow2(10)
    IN /\ calc.y.s = calc.x \div FLOAT16_SIGN_MASK
       /\ Pow2(23) + calc.y.m = m * Pow2(24 - BitLen(m))
       /\ calc.y.e = FLOAT32_EXPONENT_BIAS - 24 + (BitLen(m) - 1)

====
